---- MODULE Spec2Model ----
(***************************************************************************)
(* Geometry-edit engine of the patch editor (lib/geometry-edit).           *)
(*                                                                         *)
(* Coordinates.  A Position is a pair <<x, y>> of integers counting grid   *)
(* steps of 0.00005 degrees, so that every constant of the source that is  *)
(* expressed in degrees (or degrees squared) becomes an integer:           *)
(*     GEOMETRIC_TOLERANCE_DEG_SQ = 4e-8 deg^2   = 16 steps^2              *)
(*     BBOX_PAD_DEG               = 0.001 deg    = 20 steps                *)
(*     sqrt(4e-8) + 0.0001        = 0.0003 deg   = 6 steps                 *)
(*     MAX_DISP_SQ                = 0.1 deg^2    = 40000000 steps^2        *)
(*     1e-14 deg^2 (and 1e-20)    : below one step^2, i.e. "not zero"      *)
(* Rings are drawn with axis-parallel edges, on which the clamped          *)
(* projection of a grid point is again a grid point, so all the distance   *)
(* arithmetic of the source is exact on integers.                          *)
(*                                                                         *)
(* Indices.  The source indexes arrays from 0; the records of the model    *)
(* keep the source's 0-based indices and At(ring, i) reads position i.     *)
(*                                                                         *)
(* Geometry library.  intersect / difference / area of @turf/turf are      *)
(* modelled on the set of unit grid cells a geometry covers; one cell is   *)
(* about 31 square metres.  A null result of the library is NoGeom.        *)
(***************************************************************************)
EXTENDS Integers, Sequences, FiniteSets, TLC

\* ── Constants of the source ──────────────────────────────────────────
GEOMETRIC_TOLERANCE_DEG_SQ == 16
BBOX_PAD_DEG == 20
MIN_SHARED_VERTICES == 3
Infinity == 1000000000
CellAreaSqm == 31

\* patch.geometry === null, or an optional geometry argument that is absent:
\* every reader treats it like a MultiPolygon without polygons
NoGeom == << >>

\* ── Generic helpers (JavaScript array semantics) ─────────────────────
At(s, i) == s[i + 1]

Min2(a, b) == IF a < b THEN a ELSE b

Max2(a, b) == IF a > b THEN a ELSE b

\* ((v % n) + n) % n
Mod(v, n) == v % n

\* arr.slice(from, to): positions from..to-1 (0-based, clamped to the array)
Slice(s, from, to) ==
    LET t == Min2(to, Len(s))
    IN  IF from >= t THEN << >> ELSE [k \in 1..(t - from) |-> s[from + k]]

\* [...arr].reverse()
Reverse(s) == [k \in 1..Len(s) |-> s[Len(s) + 1 - k]]

RECURSIVE Flatten(_)
\* [].concat(...listOfLists) / results.push(...matches) in a loop
Flatten(ss) == IF ss = << >> THEN << >> ELSE Head(ss) \o Flatten(Tail(ss))

\* ── Ring primitives ──────────────────────────────────────────────────
getOpenVertexCount(ring) ==
    IF Len(ring) = 0 THEN 0
    ELSE LET isClosed == Len(ring) > 1 /\ ring[1] = ring[Len(ring)]
         IN  IF isClosed THEN Len(ring) - 1 ELSE Len(ring)

ensureClosedRing(ring) ==
    IF Len(ring) = 0 THEN ring
    ELSE IF ring[1] = ring[Len(ring)] THEN ring
    ELSE Append(ring, ring[1])

RECURSIVE MinOf(_, _)
MinOf(ring, c) ==
    IF ring = << >> THEN Infinity ELSE Min2(Head(ring)[c], MinOf(Tail(ring), c))

RECURSIVE MaxOf(_, _)
MaxOf(ring, c) ==
    IF ring = << >> THEN -Infinity ELSE Max2(Head(ring)[c], MaxOf(Tail(ring), c))

\* [minX, minY, maxX, maxY]
getRingBBox(ring) == << MinOf(ring, 1), MinOf(ring, 2), MaxOf(ring, 1), MaxOf(ring, 2) >>

bboxesOverlap(a, b, pad) ==
    ~ (  a[3] + pad < b[1] - pad
      \/ a[1] - pad > b[3] + pad
      \/ a[4] + pad < b[2] - pad
      \/ a[2] - pad > b[4] + pad )

\* ── Geometric helpers ────────────────────────────────────────────────
\* Foot of the clamped projection of p on the segment a-b:
\*   lenSq < 1e-20 -> a ;  t = max(0, min(1, dot / lenSq)) ; a + t * d
ClampedProjection(p, a, b) ==
    LET dx == b[1] - a[1]
        dy == b[2] - a[2]
        lenSq == dx * dx + dy * dy
        dot == (p[1] - a[1]) * dx + (p[2] - a[2]) * dy
    IN  IF lenSq = 0 THEN a
        ELSE IF dot <= 0 THEN a
        ELSE IF dot >= lenSq THEN b
        ELSE << a[1] + (dot * dx) \div lenSq, a[2] + (dot * dy) \div lenSq >>

DistSq(p, q) == (p[1] - q[1]) * (p[1] - q[1]) + (p[2] - q[2]) * (p[2] - q[2])

RECURSIVE NearestOnRingFrom(_, _, _, _, _)
\* the loop "for (let i = 0; i < openCount; i++)" shared by
\* pointToRingDistDegSqWithIndex and nearestPointOnRingProjected,
\* entered at index i with the best candidate found so far
NearestOnRingFrom(p, ring, openCount, i, best) ==
    IF i >= openCount THEN best
    ELSE LET j == (i + 1) % openCount
             proj == ClampedProjection(p, At(ring, i), At(ring, j))
             dSq == DistSq(p, proj)
         IN  NearestOnRingFrom(p, ring, openCount, i + 1,
                IF dSq < best.distSq
                THEN [distSq |-> dSq, point |-> proj, segIndex |-> i]
                ELSE best)

nearestPointOnRingProjected(p, ring, openCount) ==
    NearestOnRingFrom(p, ring, openCount, 0,
                      [distSq |-> Infinity, point |-> p, segIndex |-> 0])

pointToRingDistDegSqWithIndex(p, ring, openCount) ==
    LET r == nearestPointOnRingProjected(p, ring, openCount)
    IN  [distSq |-> r.distSq, segIndex |-> r.segIndex]

RECURSIVE NearestVertexFrom(_, _, _, _, _, _)
NearestVertexFrom(p, ring, openCount, i, bestIdx, bestDSq) ==
    IF i >= openCount THEN bestIdx
    ELSE LET dSq == DistSq(At(ring, i), p)
         IN  IF dSq < bestDSq
             THEN NearestVertexFrom(p, ring, openCount, i + 1, i, dSq)
             ELSE NearestVertexFrom(p, ring, openCount, i + 1, bestIdx, bestDSq)

findNearestVertexIndex(p, ring, openCount) ==
    NearestVertexFrom(p, ring, openCount, 0, 0, Infinity)

\* ── Geometric shared boundary detection ──────────────────────────────
RECURSIVE RawSegmentsFrom(_, _, _, _, _)
\* Phase 2 loop: group contiguous shared B vertices into raw segments
RawSegmentsFrom(mask, bOpenCount, i, currentStart, acc) ==
    IF i >= bOpenCount
    THEN IF currentStart # -1
         THEN Append(acc, [bStart |-> currentStart, bEnd |-> bOpenCount - 1])
         ELSE acc
    ELSE IF At(mask, i)
         THEN RawSegmentsFrom(mask, bOpenCount, i + 1,
                              IF currentStart = -1 THEN i ELSE currentStart, acc)
         ELSE IF currentStart # -1
              THEN RawSegmentsFrom(mask, bOpenCount, i + 1, -1,
                        Append(acc, [bStart |-> currentStart, bEnd |-> i - 1]))
              ELSE RawSegmentsFrom(mask, bOpenCount, i + 1, -1, acc)

\* slip: the segments at both ends of the ring are left apart
KeepRawSegments(raw, bOpenCount) == raw

\* slip: the merged segment takes the start of the first and the end of the
\* last raw segment
MergeAsWholeRing(raw, bOpenCount) ==
    IF Len(raw) >= 2
       /\ raw[1].bStart = 0
       /\ raw[Len(raw)].bEnd = bOpenCount - 1
    THEN Tail([raw EXCEPT ![Len(raw)] =
                  [bStart |-> raw[1].bStart, bEnd |-> raw[Len(raw)].bEnd]])
    ELSE raw

\* merge first and last raw segments if they connect through vertex 0
MergeWrapAround(raw, bOpenCount) ==
    IF Len(raw) >= 2
       /\ raw[1].bStart = 0
       /\ raw[Len(raw)].bEnd = bOpenCount - 1
    THEN Tail([raw EXCEPT ![Len(raw)] =
                  [bStart |-> raw[Len(raw)].bStart, bEnd |-> raw[1].bEnd]])
    ELSE raw

\* indices start..end of a ring of n open vertices, wrapping when end < start
RangeIndices(start, end, n) ==
    IF end >= start
    THEN [k \in 1..(end - start + 1) |-> start + k - 1]
    ELSE [k \in 1..(n - start) |-> start + k - 1] \o [k \in 1..(end + 1) |-> k - 1]

RECURSIVE WindingVotes(_, _, _, _, _, _)
\* sampling loop; returns <<forwardCount, reverseCount>>
WindingVotes(bIndices, bProjSegIndex, aOpenCount, sampleStep, s, votes) ==
    IF s + sampleStep >= Len(bIndices) THEN votes
    ELSE LET curr == At(bProjSegIndex, At(bIndices, s))
             next == At(bProjSegIndex, At(bIndices, s + sampleStep))
             fwd == Mod(next - curr, aOpenCount)
             rev == Mod(curr - next, aOpenCount)
         IN  WindingVotes(bIndices, bProjSegIndex, aOpenCount, sampleStep,
                          s + sampleStep,
                          IF fwd < rev THEN << votes[1] + 1, votes[2] >>
                          ELSE IF rev < fwd THEN << votes[1], votes[2] + 1 >>
                          ELSE votes)

\* slip: the comparison the other way round
IsForwardVote(forwardCount, reverseCount) == forwardCount > reverseCount

\* const isReversed = reverseCount > forwardCount
IsReversedVote(forwardCount, reverseCount) == reverseCount > forwardCount

\* Phase 3 for one raw segment: << >> when the segment is dropped,
\* else a one-element sequence holding the SharedBoundarySegment
SharedSegmentOf(raw, ringA, aOpenCount, ringB, bOpenCount, bProjSegIndex) ==
    LET sharedCount == IF raw.bEnd >= raw.bStart
                       THEN raw.bEnd - raw.bStart + 1
                       ELSE (bOpenCount - raw.bStart) + (raw.bEnd + 1)
        aStartIdx == findNearestVertexIndex(At(ringB, raw.bStart), ringA, aOpenCount)
        aEndIdx == findNearestVertexIndex(At(ringB, raw.bEnd), ringA, aOpenCount)
        bIndices == RangeIndices(raw.bStart, raw.bEnd, bOpenCount)
        sampleStep == Max2(1, Len(bIndices) \div 20)
        votes == WindingVotes(bIndices, bProjSegIndex, aOpenCount, sampleStep, 0, << 0, 0 >>)
    IN  IF sharedCount < MIN_SHARED_VERTICES THEN << >>
        ELSE IF aStartIdx = aEndIdx THEN << >>
        ELSE << [ aStartIndex |-> aStartIdx,
                  aEndIndex |-> aEndIdx,
                  bStartIndex |-> raw.bStart,
                  bEndIndex |-> raw.bEnd,
                  isReversed |-> IsReversedVote(votes[1], votes[2]),
                  sharedVertexCount |-> sharedCount ] >>

findSharedBoundaryGeometric(ringA, aOpenCount, ringB, bOpenCount) ==
    IF aOpenCount < 3 \/ bOpenCount < 3 THEN << >>
    ELSE LET near == [i \in 1..bOpenCount |->
                         pointToRingDistDegSqWithIndex(ringB[i], ringA, aOpenCount)]
             bSharedMask == [i \in 1..bOpenCount |->
                                near[i].distSq < GEOMETRIC_TOLERANCE_DEG_SQ]
             bProjSegIndex == [i \in 1..bOpenCount |-> near[i].segIndex]
             rawSegments == MergeWrapAround(
                                RawSegmentsFrom(bSharedMask, bOpenCount, 0, -1, << >>),
                                bOpenCount)
         IN  Flatten([k \in 1..Len(rawSegments) |->
                         SharedSegmentOf(rawSegments[k], ringA, aOpenCount,
                                         ringB, bOpenCount, bProjSegIndex)])

\* the adjacency records of one candidate ring of one patch
AdjacentOfRing(editedRing, editedOpenCount, editedBBox, patch, pi, ri, editedPolygonIndex, editedRingIndex) ==
    LET ring == patch.geometry[pi + 1][ri + 1]
        ringOpenCount == getOpenVertexCount(ring)
        segments == findSharedBoundaryGeometric(editedRing, editedOpenCount,
                                                ring, ringOpenCount)
    IN  IF ringOpenCount < 3 THEN << >>
        ELSE IF ~ bboxesOverlap(editedBBox, getRingBBox(ring), BBOX_PAD_DEG) THEN << >>
        ELSE [k \in 1..Len(segments) |->
                 [ patchId |-> patch.id,
                   patchCode |-> patch.code,
                   startIndex |-> segments[k].bStartIndex,
                   endIndex |-> segments[k].bEndIndex,
                   ringIndex |-> ri,
                   polygonIndex |-> pi,
                   editedStartIndex |-> segments[k].aStartIndex,
                   editedEndIndex |-> segments[k].aEndIndex,
                   editedRingIndex |-> editedRingIndex,
                   editedPolygonIndex |-> editedPolygonIndex,
                   matchedVertexCount |-> segments[k].sharedVertexCount,
                   isReversed |-> segments[k].isReversed ]]

\* slip: the edited patch itself is not skipped
findAdjacentAmongAll(editedPatchId, editedRing, allPatches, editedPolygonIndex, editedRingIndex) ==
    LET ofPatch(patch) ==
            IF patch.geometry = NoGeom THEN << >>
            ELSE Flatten([p \in 1..Len(patch.geometry) |->
                     Flatten([r \in 1..Len(patch.geometry[p]) |->
                         AdjacentOfRing(editedRing, getOpenVertexCount(editedRing),
                                        getRingBBox(editedRing), patch, p - 1, r - 1,
                                        editedPolygonIndex, editedRingIndex)])])
    IN  IF getOpenVertexCount(editedRing) < 3 THEN << >>
        ELSE Flatten([k \in 1..Len(allPatches) |-> ofPatch(allPatches[k])])

findAdjacentPatches(editedPatchId, editedRing, allPatches, editedPolygonIndex, editedRingIndex) ==
    LET editedOpenCount == getOpenVertexCount(editedRing)
        editedBBox == getRingBBox(editedRing)
        ofPatch(patch) ==
            IF patch.id = editedPatchId THEN << >>
            ELSE IF patch.geometry = NoGeom THEN << >>
            ELSE Flatten([p \in 1..Len(patch.geometry) |->
                     Flatten([r \in 1..Len(patch.geometry[p]) |->
                         AdjacentOfRing(editedRing, editedOpenCount, editedBBox,
                                        patch, p - 1, r - 1,
                                        editedPolygonIndex, editedRingIndex)])])
    IN  IF editedOpenCount < 3 THEN << >>
        ELSE Flatten([k \in 1..Len(allPatches) |-> ofPatch(allPatches[k])])

\* ── Segment extraction ───────────────────────────────────────────────
\* slip: the wrapped branch slices the closed ring, closing vertex included
extractSegmentWithClosingVertex(ring, startIndex, endIndex) ==
    LET vertexCount == getOpenVertexCount(ring)
    IN  IF vertexCount < 3 THEN << >>
        ELSE IF startIndex < 0 \/ startIndex >= vertexCount THEN << >>
        ELSE IF endIndex < 0 \/ endIndex >= vertexCount THEN << >>
        ELSE IF endIndex >= startIndex
             THEN Slice(ring, startIndex, endIndex + 1)
             ELSE Slice(ring, startIndex, Len(ring)) \o Slice(ring, 0, endIndex + 1)

extractSegmentFromRing(ring, startIndex, endIndex) ==
    LET vertexCount == getOpenVertexCount(ring)
        openRing == Slice(ring, 0, vertexCount)
    IN  IF vertexCount < 3 THEN << >>
        ELSE IF startIndex < 0 \/ startIndex >= vertexCount THEN << >>
        ELSE IF endIndex < 0 \/ endIndex >= vertexCount THEN << >>
        ELSE IF endIndex >= startIndex
             THEN Slice(openRing, startIndex, endIndex + 1)
             ELSE Slice(openRing, startIndex, Len(openRing))
                  \o Slice(openRing, 0, endIndex + 1)

\* ── Geometry library (@turf/turf) on grid cells ──────────────────────
\* even-odd test of the centre of cell <<cx, cy>> against one ring
CellInRing(cx, cy, ring) ==
    LET n == getOpenVertexCount(ring)
        X2 == 2 * cx + 1
        Y2 == 2 * cy + 1
        crosses(i) ==
            LET a == At(ring, i)
                b == At(ring, (i + 1) % n)
                dy2 == 2 * b[2] - 2 * a[2]
                lhs == (X2 - 2 * a[1]) * dy2
                rhs == (Y2 - 2 * a[2]) * (2 * b[1] - 2 * a[1])
            IN  /\ (2 * a[2] > Y2) # (2 * b[2] > Y2)
                /\ IF dy2 > 0 THEN lhs < rhs ELSE lhs > rhs
    IN  Cardinality({i \in 0..(n - 1) : crosses(i)}) % 2 = 1

CellsOfRing(ring) ==
    IF getOpenVertexCount(ring) < 3 THEN {}
    ELSE LET bb == getRingBBox(ring)
         IN  {c \in (bb[1]..(bb[3] - 1)) \X (bb[2]..(bb[4] - 1)) :
                 CellInRing(c[1], c[2], ring)}

\* a Polygon is its outer ring minus its holes
CellsOfPolygon(polygon) ==
    IF Len(polygon) = 0 THEN {}
    ELSE CellsOfRing(polygon[1])
         \ UNION {CellsOfRing(polygon[r]) : r \in 2..Len(polygon)}

\* turfFeature(geometry): the region a MultiPolygon covers
turfFeature(geometry) == UNION {CellsOfPolygon(geometry[p]) : p \in 1..Len(geometry)}

\* the library returns null exactly when the resulting region is empty
NullFeature == {}

\* the geometries on which the library fails: intersect and difference
\* throw when one of their operands is the feature of such a geometry
VARIABLE rejected

Throws(geometry) == geometry \in rejected

area(region) == Cardinality(region) * CellAreaSqm

intersect(a, b) == IF a \cap b = {} THEN NullFeature ELSE a \cap b

difference(a, b) == IF a \ b = {} THEN NullFeature ELSE a \ b

CellsTouch(c, d) ==
    \/ (c[1] = d[1] /\ (c[2] - d[2] = 1 \/ d[2] - c[2] = 1))
    \/ (c[2] = d[2] /\ (c[1] - d[1] = 1 \/ d[1] - c[1] = 1))

RECURSIVE Flood(_, _)
Flood(S, cells) ==
    LET nxt == S \cup {d \in cells : \E c \in S : CellsTouch(c, d)}
    IN  IF nxt = S THEN S ELSE Flood(nxt, cells)

RECURSIVE PolygonsOf(_)
\* the component polygons of a (Multi)Polygon result of the library
PolygonsOf(cells) ==
    IF cells = {} THEN {}
    ELSE LET comp == Flood({CHOOSE c \in cells : TRUE}, cells)
         IN  {comp} \cup PolygonsOf(cells \ comp)

\* ── Post-edit: gap detection ─────────────────────────────────────────
\* slip: a failing difference is not caught in the loop and ends the
\* gap detection in its outer handler
SubtractOccupiedUncaught(gap, occupiedPatches) ==
    IF \E k \in 1..Len(occupiedPatches) : Throws(occupiedPatches[k].geometry)
    THEN NullFeature
    ELSE gap \ UNION {turfFeature(occupiedPatches[k].geometry) :
                         k \in 1..Len(occupiedPatches)}

RECURSIVE SubtractOccupied(_, _)
\* for (const patch of occupiedPatches) gap = difference(gap, patch)
SubtractOccupied(gap, occupiedPatches) ==
    IF occupiedPatches = << >> THEN gap
    ELSE LET patch == Head(occupiedPatches)
         IN  IF patch.geometry = NoGeom \/ gap = NullFeature
             THEN SubtractOccupied(gap, Tail(occupiedPatches))
             ELSE IF Throws(patch.geometry)
             THEN SubtractOccupied(gap, Tail(occupiedPatches))
             ELSE SubtractOccupied(difference(gap, turfFeature(patch.geometry)),
                                   Tail(occupiedPatches))

\* slip: residual polygons below 100 square metres are kept
detectGapOfAnySize(oldGeometry, newGeometry, occupiedPatches) ==
    IF Throws(oldGeometry) \/ Throws(newGeometry) THEN NullFeature
    ELSE SubtractOccupied(difference(turfFeature(oldGeometry), turfFeature(newGeometry)),
                     occupiedPatches)

detectGap(oldGeometry, newGeometry, occupiedPatches) ==
    LET lost == difference(turfFeature(oldGeometry), turfFeature(newGeometry))
        gap == SubtractOccupied(lost, occupiedPatches)
        keeps(candidate) ==
            /\ ~ (area(candidate) < 100)
            /\ \A k \in 1..Len(occupiedPatches) :
                  \/ occupiedPatches[k].geometry = NoGeom
                  \/ Throws(occupiedPatches[k].geometry)
                  \/ LET overlap == intersect(candidate,
                                        turfFeature(occupiedPatches[k].geometry))
                     IN  ~ (overlap # NullFeature /\ area(overlap) > 100)
        cleanCoordinates == {c \in PolygonsOf(gap) : keeps(c)}
    IN  IF Throws(oldGeometry) \/ Throws(newGeometry) THEN NullFeature
        ELSE IF lost = NullFeature THEN NullFeature
        ELSE IF gap = NullFeature THEN NullFeature
        ELSE IF cleanCoordinates = {} THEN NullFeature
        ELSE UNION cleanCoordinates

\* slip: any overlap at all counts as 'overlap'
classifyAnyOverlap(editedGeometry, neighbourGeometry) ==
    IF Throws(editedGeometry) \/ Throws(neighbourGeometry) THEN "aligned"
    ELSE IF intersect(turfFeature(editedGeometry), turfFeature(neighbourGeometry)) # NullFeature
    THEN "overlap" ELSE "aligned"

classifyNeighbourRelationship(editedGeometry, neighbourGeometry) ==
    LET overlap == intersect(turfFeature(editedGeometry), turfFeature(neighbourGeometry))
    IN  IF Throws(editedGeometry) \/ Throws(neighbourGeometry) THEN "aligned"
        ELSE IF overlap # NullFeature
        THEN IF area(overlap) > 100 THEN "overlap" ELSE "aligned"
        ELSE "aligned"

\* slip: the overlap is compared with the larger of the two areas
isDuplicateOfLarger(geomA, geomB) ==
    LET areaA == area(turfFeature(geomA))
        areaB == area(turfFeature(geomB))
        overlap == intersect(turfFeature(geomA), turfFeature(geomB))
    IN  IF areaA = 0 \/ areaB = 0 THEN FALSE
        ELSE IF Throws(geomA) \/ Throws(geomB) THEN FALSE
        ELSE IF overlap = NullFeature THEN FALSE
        ELSE 100 * area(overlap) > 95 * Max2(areaA, areaB)

isDuplicateGeometry(geomA, geomB) ==
    LET areaA == area(turfFeature(geomA))
        areaB == area(turfFeature(geomB))
        overlap == intersect(turfFeature(geomA), turfFeature(geomB))
        overlapArea == area(overlap)
        smallerArea == Min2(areaA, areaB)
    IN  IF areaA = 0 \/ areaB = 0 THEN FALSE
        ELSE IF Throws(geomA) \/ Throws(geomB) THEN FALSE
        ELSE IF overlap = NullFeature THEN FALSE
        ELSE 100 * overlapArea > 95 * smallerArea

\* ── Edited vertex range detection ────────────────────────────────────
\* undefined (a missing polygon or ring under optional chaining): every
\* reader treats it like a ring without positions
NoRing == << >>

\* geometry.coordinates[pi]?.[ri]
RingAt(geometry, pi, ri) ==
    IF pi + 1 \in 1..Len(geometry)
    THEN IF ri + 1 \in 1..Len(geometry[pi + 1])
         THEN geometry[pi + 1][ri + 1]
         ELSE NoRing
    ELSE NoRing

\* null result of findEditedVertexRange
NoRange == [start |-> -1, end |-> -1]

\* 1e-14 deg^2: any two distinct grid points are further apart
THRESHOLD_DEG_SQ == 0

findEditedVertexRange(preEditRing, preEditOpenCount, postEditRing, postEditOpenCount) ==
    LET moved(i) ==
            IF preEditOpenCount = postEditOpenCount
            THEN DistSq(At(preEditRing, i), At(postEditRing, i)) > THRESHOLD_DEG_SQ
            ELSE pointToRingDistDegSqWithIndex(At(postEditRing, i),
                     preEditRing, preEditOpenCount).distSq > THRESHOLD_DEG_SQ
        changed == {i \in 0..(postEditOpenCount - 1) : moved(i)}
    IN  IF changed = {} THEN NoRange
        ELSE [ start |-> CHOOSE i \in changed : \A j \in changed : i <= j,
               end |-> CHOOSE i \in changed : \A j \in changed : i >= j ]

\* ── Post-edit analysis ───────────────────────────────────────────────
EDIT_BUFFER == 3

\* slip: both ends are remapped from the old start vertex (the range collapses)
RemapCandidateCollapsed(candidate, oldGeometry, newGeometry) ==
    LET oldRing == RingAt(oldGeometry, candidate.editedPolygonIndex, candidate.editedRingIndex)
        newRing == RingAt(newGeometry, candidate.editedPolygonIndex, candidate.editedRingIndex)
        newOpenCount == getOpenVertexCount(newRing)
        at == findNearestVertexIndex(At(oldRing, candidate.editedStartIndex),
                                     newRing, newOpenCount)
    IN  IF oldRing = NoRing \/ newRing = NoRing THEN candidate
        ELSE IF newOpenCount < 3 THEN candidate
        ELSE [candidate EXCEPT !.editedStartIndex = at, !.editedEndIndex = at]

\* remap editedStartIndex / editedEndIndex from the OLD ring to the NEW ring
RemapCandidate(candidate, oldGeometry, newGeometry) ==
    LET oldRing == RingAt(oldGeometry, candidate.editedPolygonIndex, candidate.editedRingIndex)
        newRing == RingAt(newGeometry, candidate.editedPolygonIndex, candidate.editedRingIndex)
        newOpenCount == getOpenVertexCount(newRing)
    IN  IF oldRing = NoRing \/ newRing = NoRing THEN candidate
        ELSE IF newOpenCount < 3 THEN candidate
        ELSE IF candidate.editedStartIndex >= Len(oldRing)
                \/ candidate.editedEndIndex >= Len(oldRing) THEN candidate
        ELSE [candidate EXCEPT
                 !.editedStartIndex = findNearestVertexIndex(
                     At(oldRing, candidate.editedStartIndex), newRing, newOpenCount),
                 !.editedEndIndex = findNearestVertexIndex(
                     At(oldRing, candidate.editedEndIndex), newRing, newOpenCount)]

\* records.map(r => r.patchId), as a set
IdsOf(infos) == {infos[k].patchId : k \in 1..Len(infos)}

\* features.map(f => f.properties.id), as a set
IdsOfPatches(patches) == {patches[k].id : k \in 1..Len(patches)}

\* allPatches.find(f => f.properties.id === id): 0 when there is none
FindPatchIndex(allPatches, id) ==
    IF \E k \in 1..Len(allPatches) : allPatches[k].id = id
    THEN CHOOSE k \in 1..Len(allPatches) :
            /\ allPatches[k].id = id
            /\ \A j \in 1..(k - 1) : allPatches[j].id # id
    ELSE 0

\* the neighbour ring a candidate points at, NoRing when there is none
NeighbourRingOf(candidate, allPatches) ==
    LET pidx == FindPatchIndex(allPatches, candidate.patchId)
    IN  IF pidx = 0 THEN NoRing
        ELSE IF allPatches[pidx].geometry = NoGeom THEN NoRing
        ELSE RingAt(allPatches[pidx].geometry, candidate.polygonIndex, candidate.ringIndex)

\* slip: an empty intersection is written to the candidate as well
NarrowedToUnchecked(candidate, postEditRing, intStart, intEnd, neighbourRing, nOpenCount) ==
    IF neighbourRing = NoRing \/ nOpenCount < 3
    THEN [candidate EXCEPT !.editedStartIndex = intStart, !.editedEndIndex = intEnd]
    ELSE [candidate EXCEPT
             !.editedStartIndex = intStart,
             !.editedEndIndex = intEnd,
             !.startIndex = findNearestVertexIndex(
                 At(postEditRing, intStart), neighbourRing, nOpenCount),
             !.endIndex = findNearestVertexIndex(
                 At(postEditRing, intEnd), neighbourRing, nOpenCount)]

\* the candidate narrowed to intStart..intEnd of the edited ring, its
\* neighbour indices recomputed from the narrowed end points
NarrowedTo(candidate, postEditRing, intStart, intEnd, neighbourRing, nOpenCount) ==
    IF intStart > intEnd THEN candidate
    ELSE IF neighbourRing = NoRing \/ nOpenCount < 3
    THEN [candidate EXCEPT !.editedStartIndex = intStart, !.editedEndIndex = intEnd]
    ELSE [candidate EXCEPT
             !.editedStartIndex = intStart,
             !.editedEndIndex = intEnd,
             !.startIndex = findNearestVertexIndex(
                 At(postEditRing, intStart), neighbourRing, nOpenCount),
             !.endIndex = findNearestVertexIndex(
                 At(postEditRing, intEnd), neighbourRing, nOpenCount)]

\* intersect the shared range with the edited range widened by EDIT_BUFFER
NarrowToRange(candidate, postEditRing, postEditOpenCount, editedRange, neighbourRing) ==
    IF editedRange = NoRange THEN candidate
    ELSE LET buffStart == Max2(0, editedRange.start - EDIT_BUFFER)
             buffEnd == Min2(postEditOpenCount - 1, editedRange.end + EDIT_BUFFER)
             sharedStart == candidate.editedStartIndex
             sharedEnd == candidate.editedEndIndex
         IN  NarrowedTo(candidate, postEditRing,
                        Max2(buffStart, Min2(sharedStart, sharedEnd)),
                        Min2(buffEnd, Max2(sharedStart, sharedEnd)),
                        neighbourRing, getOpenVertexCount(neighbourRing))

\* narrow one candidate to the user-edited section (or keep it as it is)
NarrowCandidate(candidate, newGeometry, allPatches, preEditSimplifiedGeometry) ==
    LET preEditRing == RingAt(preEditSimplifiedGeometry,
                              candidate.editedPolygonIndex, candidate.editedRingIndex)
        postEditRing == RingAt(newGeometry,
                               candidate.editedPolygonIndex, candidate.editedRingIndex)
    IN  IF preEditRing = NoRing \/ postEditRing = NoRing THEN candidate
        ELSE IF getOpenVertexCount(preEditRing) < 3 \/ getOpenVertexCount(postEditRing) < 3
        THEN candidate
        ELSE NarrowToRange(candidate, postEditRing, getOpenVertexCount(postEditRing),
                 findEditedVertexRange(preEditRing, getOpenVertexCount(preEditRing),
                                       postEditRing, getOpenVertexCount(postEditRing)),
                 NeighbourRingOf(candidate, allPatches))

\* findAdjacentPatches over every ring of a geometry, in polygon / ring order
AdjacentCandidates(patchId, geometry, allPatches) ==
    Flatten([p \in 1..Len(geometry) |->
        Flatten([r \in 1..Len(geometry[p]) |->
            findAdjacentPatches(patchId, geometry[p][r], allPatches, p - 1, r - 1)])])

RECURSIVE KeepFirst(_, _)
\* slip: an existing key is never replaced, so the first candidate wins
KeepFirst(candidates, acc) ==
    IF candidates = << >> THEN acc
    ELSE IF \E k \in 1..Len(acc) : acc[k].patchId = Head(candidates).patchId
         THEN KeepFirst(Tail(candidates), acc)
         ELSE KeepFirst(Tail(candidates), Append(acc, Head(candidates)))

RECURSIVE KeepStrongest(_, _)
\* Map<patchId, AdjacentPatchInfo>: set() on a new key appends it, on an
\* existing key replaces its value in place; acc is Array.from(map.values())
KeepStrongest(candidates, acc) ==
    IF candidates = << >> THEN acc
    ELSE LET c == Head(candidates)
             has == \E k \in 1..Len(acc) : acc[k].patchId = c.patchId
             at == CHOOSE k \in 1..Len(acc) : acc[k].patchId = c.patchId
         IN  IF ~ has THEN KeepStrongest(Tail(candidates), Append(acc, c))
             ELSE IF c.matchedVertexCount > acc[at].matchedVertexCount
                  THEN KeepStrongest(Tail(candidates), [acc EXCEPT ![at] = c])
                  ELSE KeepStrongest(Tail(candidates), acc)

\* arr.filter(keep)
RECURSIVE SelectSeqBy(_, _)
SelectSeqBy(s, keepSet) ==
    IF s = << >> THEN << >>
    ELSE IF Head(s) \in keepSet THEN << Head(s) >> \o SelectSeqBy(Tail(s), keepSet)
    ELSE SelectSeqBy(Tail(s), keepSet)

\* remap every candidate from the old ring to the new ring
RemapAll(found, oldGeometry, newGeometry) ==
    [k \in 1..Len(found) |-> RemapCandidate(found[k], oldGeometry, newGeometry)]

\* if (preEditSimplifiedGeometry) narrow every candidate
NarrowAll(remapped, newGeometry, allPatches, preEditSimplifiedGeometry) ==
    IF preEditSimplifiedGeometry = NoGeom THEN remapped
    ELSE [k \in 1..Len(remapped) |->
             NarrowCandidate(remapped[k], newGeometry, allPatches,
                             preEditSimplifiedGeometry)]

\* scan ALL patches for duplicates of the old geometry
DuplicateIds(editedPatchId, oldGeometry, allPatches) ==
    {allPatches[k].id : k \in
        {k \in 1..Len(allPatches) :
            /\ allPatches[k].id # editedPatchId
            /\ allPatches[k].geometry # NoGeom
            /\ isDuplicateGeometry(oldGeometry, allPatches[k].geometry)}}

\* the NeighbourInfo of one adjacency record
NeighbourInfoOf(adj, isDupe, newGeometry, allPatches) ==
    [ patchId |-> adj.patchId,
      patchCode |-> adj.patchCode,
      relationship |-> IF isDupe THEN "overlap"
                       ELSE classifyNeighbourRelationship(newGeometry,
                                allPatches[FindPatchIndex(allPatches, adj.patchId)].geometry),
      isDuplicate |-> isDupe,
      adjacentInfo |-> adj ]

\* adjacentPatches.map(...)
FromAdjacency(adjacentPatches, duplicateIds, newGeometry, allPatches) ==
    [k \in 1..Len(adjacentPatches) |->
        NeighbourInfoOf(adjacentPatches[k], adjacentPatches[k].patchId \in duplicateIds,
                        newGeometry, allPatches)]

\* the duplicates that share no boundary are added with a synthetic record
WithExtraDuplicates(fromAdjacency, duplicateIds, editedPatchId, allPatches) ==
    LET missing(k) ==
            /\ allPatches[k].id # editedPatchId
            /\ allPatches[k].id \in duplicateIds
            /\ ~ \E n \in 1..Len(fromAdjacency) : fromAdjacency[n].patchId = allPatches[k].id
            /\ ~ \E j \in 1..(k - 1) : allPatches[j].id = allPatches[k].id
    IN  fromAdjacency \o
        Flatten([k \in 1..Len(allPatches) |->
            IF missing(k)
            THEN << [ patchId |-> allPatches[k].id,
                      patchCode |-> allPatches[k].code,
                      relationship |-> "overlap",
                      isDuplicate |-> TRUE,
                      adjacentInfo |->
                          [ patchId |-> allPatches[k].id,
                            patchCode |-> allPatches[k].code,
                            startIndex |-> 0, endIndex |-> 0,
                            ringIndex |-> 0, polygonIndex |-> 0,
                            editedStartIndex |-> 0, editedEndIndex |-> 0,
                            editedRingIndex |-> 0, editedPolygonIndex |-> 0,
                            matchedVertexCount |-> 0, isReversed |-> FALSE ] ] >>
            ELSE << >>])

\* every patch but the edited one
OccupiedFeatures(editedPatchId, allPatches) ==
    SelectSeqBy(allPatches,
        {allPatches[k] : k \in {k \in 1..Len(allPatches) :
            /\ allPatches[k].id # editedPatchId
            /\ allPatches[k].geometry # NoGeom}})

\* split into duplicates and neighbours, attach the gap
AnalysisOf(allNeighbours, gapGeometry) ==
    [ duplicates |-> SelectSeqBy(allNeighbours,
          {allNeighbours[k] : k \in {k \in 1..Len(allNeighbours) :
                                        allNeighbours[k].isDuplicate}}),
      neighbours |-> SelectSeqBy(allNeighbours,
          {allNeighbours[k] : k \in {k \in 1..Len(allNeighbours) :
                                        ~ allNeighbours[k].isDuplicate}}),
      gapGeometry |-> gapGeometry,
      gapAreaSqm |-> IF gapGeometry # NullFeature THEN area(gapGeometry) ELSE 0 ]

\* slip: the candidates are detected on the new geometry
analyseFromNewGeometry(editedPatchId, oldGeometry, newGeometry, allPatches, preEditSimplifiedGeometry) ==
    AnalysisOf(
        WithExtraDuplicates(
            FromAdjacency(
                KeepStrongest(
                    NarrowAll(AdjacentCandidates(editedPatchId, newGeometry, allPatches),
                              newGeometry, allPatches, preEditSimplifiedGeometry),
                    << >>),
                DuplicateIds(editedPatchId, oldGeometry, allPatches),
                newGeometry, allPatches),
            DuplicateIds(editedPatchId, oldGeometry, allPatches),
            editedPatchId, allPatches),
        detectGap(oldGeometry, newGeometry, OccupiedFeatures(editedPatchId, allPatches)))

analysePostEdit(editedPatchId, oldGeometry, newGeometry, allPatches, preEditSimplifiedGeometry) ==
    AnalysisOf(
        WithExtraDuplicates(
            FromAdjacency(
                KeepStrongest(
                    NarrowAll(
                        RemapAll(AdjacentCandidates(editedPatchId, oldGeometry, allPatches),
                                 oldGeometry, newGeometry),
                        newGeometry, allPatches, preEditSimplifiedGeometry),
                    << >>),
                DuplicateIds(editedPatchId, oldGeometry, allPatches),
                newGeometry, allPatches),
            DuplicateIds(editedPatchId, oldGeometry, allPatches),
            editedPatchId, allPatches),
        detectGap(oldGeometry, newGeometry, OccupiedFeatures(editedPatchId, allPatches)))

detectNeighbors(patchId, geometry, allPatches) ==
    KeepStrongest(AdjacentCandidates(patchId, geometry, allPatches), << >>)

\* ── Connection quality ───────────────────────────────────────────────
\* calculateAngle(a, b, c) < 30 : the angle at b is below 30 degrees, i.e.
\* its cosine exceeds sqrt(3)/2 ; a zero-length arm gives 180 degrees
AngleBelow30(a, b, c) ==
    LET bax == a[1] - b[1]
        bay == a[2] - b[2]
        bcx == c[1] - b[1]
        bcy == c[2] - b[2]
        dotProduct == bax * bcx + bay * bcy
        magSqBA == bax * bax + bay * bay
        magSqBC == bcx * bcx + bcy * bcy
    IN  IF magSqBA = 0 \/ magSqBC = 0 THEN FALSE
        ELSE dotProduct > 0 /\ 4 * dotProduct * dotProduct > 3 * magSqBA * magSqBC

\* distance(point(p), point(q), kilometers) > 0.005 : more than 5 metres
\* apart; one grid step is sqrt(CellAreaSqm) metres
DistanceOver5m(p, q) == CellAreaSqm * DistSq(p, q) > 25

\* a null beforePoint / afterPoint
NoPoint == << >>

assessConnectionQuality(beforePoint, startPoint, endPoint, afterPoint) ==
    LET startBad ==
            /\ beforePoint # NoPoint
            /\ \/ AngleBelow30(beforePoint, startPoint,
                      IF startPoint = endPoint /\ afterPoint # NoPoint
                      THEN afterPoint ELSE endPoint)
               \/ DistanceOver5m(beforePoint, startPoint)
        endBad ==
            /\ afterPoint # NoPoint
            /\ \/ AngleBelow30(
                      IF endPoint = startPoint /\ beforePoint # NoPoint
                      THEN beforePoint ELSE startPoint,
                      endPoint, afterPoint)
               \/ DistanceOver5m(endPoint, afterPoint)
    IN  IF startBad THEN "poor" ELSE IF endBad THEN "poor" ELSE "good"

projectToNearestPoint(targetPoint, segmentStart, segmentEnd) ==
    IF segmentEnd[1] - segmentStart[1] = 0 /\ segmentEnd[2] - segmentStart[2] = 0
    THEN segmentStart
    ELSE ClampedProjection(targetPoint, segmentStart, segmentEnd)

\* ── Sync by projection ───────────────────────────────────────────────
RECURSIVE ProjectOnPolyline(_, _, _, _, _)
\* inner loop "for (let j = 0; j < polyline.length - 1; j++)"
ProjectOnPolyline(vertex, polyline, j, bestDistSq, bestPoint) ==
    IF j >= Len(polyline) - 1 THEN bestPoint
    ELSE LET projected == projectToNearestPoint(vertex, At(polyline, j), At(polyline, j + 1))
             dSq == DistSq(projected, vertex)
         IN  IF dSq < bestDistSq
             THEN ProjectOnPolyline(vertex, polyline, j + 1, dSq, projected)
             ELSE ProjectOnPolyline(vertex, polyline, j + 1, bestDistSq, bestPoint)

\* geometry with ring (pi, ri) replaced
\* slip: the last slot keeps its old position
RecloseSkipped(ring) == ring

\* Re-close the ring: ring[ring.length - 1] = [...ring[0]]
Reclose(ring) == [ring EXCEPT ![Len(ring)] = ring[1]]

WithRing(geometry, pi, ri, ring) ==
    [geometry EXCEPT ![pi + 1] = [@ EXCEPT ![ri + 1] = ring]]

\* ── Sync by splicing ─────────────────────────────────────────────────
\* slip: only a ring that does not exist is left alone
RingMissing(ring) == ring = NoRing

\* if (!ring || ring.length < 4) return ; if (openVertexCount < 3) return
RingTooShort(ring) == ring = NoRing \/ Len(ring) < 4 \/ getOpenVertexCount(ring) < 3

\* slip: the wrapped branch counts one replaced vertex too few
SplicedOneShort(openRing, replacement, startIndex, endIndex) ==
    IF endIndex >= startIndex
    THEN Slice(openRing, 0, startIndex) \o replacement
         \o Slice(openRing, endIndex + 1, Len(openRing))
    ELSE replacement
         \o Slice(Slice(openRing, startIndex, Len(openRing)) \o Slice(openRing, 0, startIndex),
                  (Len(openRing) - startIndex) + endIndex, Len(openRing))

\* newOpenRing of the two branches
SplicedOpenRing(openRing, replacement, startIndex, endIndex) ==
    IF endIndex >= startIndex
    THEN Slice(openRing, 0, startIndex) \o replacement
         \o Slice(openRing, endIndex + 1, Len(openRing))
    ELSE replacement
         \o Slice(Slice(openRing, startIndex, Len(openRing)) \o Slice(openRing, 0, startIndex),
                  (Len(openRing) - startIndex) + endIndex + 1, Len(openRing))

\* if (newOpenRing.length < 3) return neighbourGeometry ; else write it closed
WriteSpliced(neighbourGeometry, adjacentInfo, newOpenRing) ==
    IF Len(newOpenRing) < 3 THEN neighbourGeometry
    ELSE WithRing(neighbourGeometry, adjacentInfo.polygonIndex, adjacentInfo.ringIndex,
                  ensureClosedRing(newOpenRing))

\* the guards of syncAdjacentBoundary on the neighbour ring
SpliceOnRing(neighbourGeometry, newSegmentPositions, adjacentInfo, ring, openVertexCount) ==
    IF RingTooShort(ring) THEN neighbourGeometry
    ELSE IF Len(newSegmentPositions) < 2 THEN neighbourGeometry
    ELSE IF adjacentInfo.startIndex < 0 \/ adjacentInfo.startIndex >= openVertexCount
    THEN neighbourGeometry
    ELSE IF adjacentInfo.endIndex < 0 \/ adjacentInfo.endIndex >= openVertexCount
    THEN neighbourGeometry
    ELSE WriteSpliced(neighbourGeometry, adjacentInfo,
             SplicedOpenRing(Slice(ring, 0, openVertexCount),
                             IF adjacentInfo.isReversed THEN Reverse(newSegmentPositions)
                             ELSE newSegmentPositions,
                             adjacentInfo.startIndex, adjacentInfo.endIndex))

syncAdjacentBoundary(neighbourGeometry, newSegmentPositions, adjacentInfo) ==
    SpliceOnRing(neighbourGeometry, newSegmentPositions, adjacentInfo,
        RingAt(neighbourGeometry, adjacentInfo.polygonIndex, adjacentInfo.ringIndex),
        getOpenVertexCount(
            RingAt(neighbourGeometry, adjacentInfo.polygonIndex, adjacentInfo.ringIndex)))

\* ── Sync by projection ───────────────────────────────────────────────
\* the early returns: the geometry as it was, quality 'poor'
PoorResult(neighbourGeometry) ==
    [ geometry |-> neighbourGeometry,
      quality |-> "poor",
      changedSegment |-> << >>,
      connectionPoints |-> [start |-> << 0, 0 >>, end |-> << 0, 0 >>] ]

\* every vertex of the shared range projected on the polyline
ProjectedSegment(ring, indices, polyline) ==
    [k \in 1..Len(indices) |->
        ProjectOnPolyline(At(ring, indices[k]), polyline, 0, Infinity, At(ring, indices[k]))]

\* ring[idx] = bestPoint for every index of the shared range, then re-close
ProjectedRing(ring, indices, changedSegment) ==
    Reclose([i \in 1..Len(ring) |->
                IF \E k \in 1..Len(indices) : indices[k] = i - 1
                THEN changedSegment[CHOOSE k \in 1..Len(indices) : indices[k] = i - 1]
                ELSE ring[i]])

\* the result once the ring is written back
ProjectionResult(neighbourGeometry, adjacentInfo, openCount, changedSegment, closedRing) ==
    [ geometry |-> WithRing(neighbourGeometry, adjacentInfo.polygonIndex,
                            adjacentInfo.ringIndex, closedRing),
      quality |-> assessConnectionQuality(
                      IF adjacentInfo.startIndex > 0
                      THEN At(closedRing, adjacentInfo.startIndex - 1)
                      ELSE At(closedRing, openCount - 1),
                      changedSegment[1],
                      changedSegment[Len(changedSegment)],
                      At(closedRing, (adjacentInfo.endIndex + 1) % openCount)),
      changedSegment |-> changedSegment,
      connectionPoints |-> [ start |-> changedSegment[1],
                             end |-> changedSegment[Len(changedSegment)] ] ]

\* the projection loop over the shared range of the neighbour ring
ProjectRange(neighbourGeometry, adjacentInfo, ring, openCount, indices, changedSegment) ==
    ProjectionResult(neighbourGeometry, adjacentInfo, openCount, changedSegment,
                     ProjectedRing(ring, indices, changedSegment))

\* the guards of syncBoundaryByProjection on the neighbour ring
ProjectOnRing(neighbourGeometry, editedPolyline, adjacentInfo, ring, openCount) ==
    IF Len(editedPolyline) < 2 THEN PoorResult(neighbourGeometry)
    ELSE IF ring = NoRing THEN PoorResult(neighbourGeometry)
    ELSE IF Len(ring) < 4 THEN PoorResult(neighbourGeometry)
    ELSE IF openCount < 3 THEN PoorResult(neighbourGeometry)
    ELSE IF adjacentInfo.startIndex < 0 \/ adjacentInfo.startIndex >= openCount
    THEN PoorResult(neighbourGeometry)
    ELSE IF adjacentInfo.endIndex < 0 \/ adjacentInfo.endIndex >= openCount
    THEN PoorResult(neighbourGeometry)
    ELSE ProjectRange(neighbourGeometry, adjacentInfo, ring, openCount,
             RangeIndices(adjacentInfo.startIndex, adjacentInfo.endIndex, openCount),
             ProjectedSegment(ring,
                 RangeIndices(adjacentInfo.startIndex, adjacentInfo.endIndex, openCount),
                 IF adjacentInfo.isReversed THEN Reverse(editedPolyline)
                 ELSE editedPolyline))

syncBoundaryByProjection(neighbourGeometry, editedPolyline, adjacentInfo) ==
    ProjectOnRing(neighbourGeometry, editedPolyline, adjacentInfo,
        RingAt(neighbourGeometry, adjacentInfo.polygonIndex, adjacentInfo.ringIndex),
        getOpenVertexCount(
            RingAt(neighbourGeometry, adjacentInfo.polygonIndex, adjacentInfo.ringIndex)))

\* ── Sync by displacement ─────────────────────────────────────────────
MAX_DISP_SQ == 40000000

\* 1e-14 deg^2 is below one grid step squared
MIN_DISP_SQ == 1

\* pad = Math.sqrt(PROXIMITY_SQ) + 0.0001
DisplacementPad == 6

PROXIMITY_SQ == GEOMETRIC_TOLERANCE_DEG_SQ

\* slip: the proximity test uses the padding of the bounding box filter
BeyondPad(oldDistSq) == oldDistSq > DisplacementPad * DisplacementPad

\* if (oldDistSq > PROXIMITY_SQ) continue
BeyondProximity(oldDistSq) == oldDistSq > PROXIMITY_SQ

\* the displaced position of one neighbour vertex, or the vertex itself
\* when one of the "continue" branches of the loop is taken
DisplacedVertex(v, oldEditedRing, oldOpenCount, newEditedRing, newOpenCount, oldBBox) ==
    LET old == nearestPointOnRingProjected(v, oldEditedRing, oldOpenCount)
        pOld == old.point
        pNew == nearestPointOnRingProjected(pOld, newEditedRing, newOpenCount).point
        dx == pNew[1] - pOld[1]
        dy == pNew[2] - pOld[2]
        dispSq == dx * dx + dy * dy
    IN  IF \/ v[1] < oldBBox[1] - DisplacementPad \/ v[1] > oldBBox[3] + DisplacementPad
           \/ v[2] < oldBBox[2] - DisplacementPad \/ v[2] > oldBBox[4] + DisplacementPad
        THEN [moved |-> FALSE, pos |-> v]
        ELSE IF BeyondProximity(old.distSq) THEN [moved |-> FALSE, pos |-> v]
        ELSE IF dispSq > MAX_DISP_SQ THEN [moved |-> FALSE, pos |-> v]
        ELSE IF dispSq < MIN_DISP_SQ THEN [moved |-> FALSE, pos |-> v]
        ELSE [moved |-> TRUE, pos |-> << v[1] + dx, v[2] + dy >>]

\* const empty: nothing displaced
EmptyResult(neighbourGeometry) ==
    PoorResult(neighbourGeometry) @@ [displacedCount |-> 0]

\* the loop over the open vertices of the neighbour ring
DisplacementSteps(ring, openCount, oldEditedRing, newEditedRing) ==
    [i \in 1..openCount |->
        DisplacedVertex(ring[i], oldEditedRing, getOpenVertexCount(oldEditedRing),
                        newEditedRing, getOpenVertexCount(newEditedRing),
                        getRingBBox(oldEditedRing))]

\* the ring with the displaced positions written in, then re-closed
DisplacedRing(ring, openCount, step) ==
    Reclose([i \in 1..Len(ring) |-> IF i <= openCount THEN step[i].pos ELSE ring[i]])

\* the result for the changed indices (1-based here)
DisplacementResult(neighbourGeometry, polygonIndex, ringIndex, step, changedSeq, closedRing) ==
    IF changedSeq = << >> THEN EmptyResult(neighbourGeometry)
    ELSE [ geometry |-> WithRing(neighbourGeometry, polygonIndex, ringIndex, closedRing),
           quality |-> "good",
           changedSegment |-> [k \in 1..Len(changedSeq) |-> step[changedSeq[k]].pos],
           connectionPoints |-> [ start |-> closedRing[changedSeq[1]],
                                  end |-> closedRing[changedSeq[Len(changedSeq)]] ],
           displacedCount |-> Len(changedSeq) ]

\* collect the changed indices in ring order
DisplaceRing(neighbourGeometry, polygonIndex, ringIndex, ring, openCount, step) ==
    DisplacementResult(neighbourGeometry, polygonIndex, ringIndex, step,
        SelectSeqBy([i \in 1..openCount |-> i], {i \in 1..openCount : step[i].moved}),
        DisplacedRing(ring, openCount, step))

\* the guards of syncBoundaryByDisplacement on the neighbour ring
DisplaceOnRing(neighbourGeometry, oldEditedRing, newEditedRing, polygonIndex, ringIndex, ring) ==
    IF ring = NoRing THEN EmptyResult(neighbourGeometry)
    ELSE IF Len(ring) < 4 THEN EmptyResult(neighbourGeometry)
    ELSE IF getOpenVertexCount(oldEditedRing) < 3 \/ getOpenVertexCount(newEditedRing) < 3
    THEN EmptyResult(neighbourGeometry)
    ELSE DisplaceRing(neighbourGeometry, polygonIndex, ringIndex, ring,
             getOpenVertexCount(ring),
             DisplacementSteps(ring, getOpenVertexCount(ring), oldEditedRing, newEditedRing))

syncBoundaryByDisplacement(neighbourGeometry, oldEditedRing, newEditedRing, polygonIndex, ringIndex) ==
    DisplaceOnRing(neighbourGeometry, oldEditedRing, newEditedRing, polygonIndex, ringIndex,
                   RingAt(neighbourGeometry, polygonIndex, ringIndex))

\* ── Boundary proposals ───────────────────────────────────────────────
\* slip: the displacement result is taken even when nothing was displaced
UseDisplacementWhenOldGiven(oldEditedGeometry, oldRing, newRing, displacedCount) ==
    /\ oldEditedGeometry # NoGeom
    /\ oldRing # NoRing /\ newRing # NoRing

\* if (oldEditedGeometry) { if (oldRing && newRing) { if (displacedCount > 0)
UseDisplacement(oldEditedGeometry, oldRing, newRing, displacedCount) ==
    /\ oldEditedGeometry # NoGeom
    /\ oldRing # NoRing /\ newRing # NoRing
    /\ displacedCount > 0

\* the fields every proposal carries
ProposalBase(neighbour, neighbourGeom, originalSegment) ==
    [ patchId |-> neighbour.patchId,
      patchCode |-> neighbour.patchCode,
      relationship |-> neighbour.relationship,
      adjacentInfo |-> neighbour.adjacentInfo,
      originalGeometry |-> neighbourGeom,
      originalSegment |-> originalSegment ]

\* proposals.push({...}) from the displacement result
DisplacementProposal(base, displaced) ==
    base @@ [ proposedGeometry |-> displaced.geometry,
              proposedSegment |-> displaced.changedSegment,
              changedSegment |-> displaced.changedSegment,
              connectionPoints |-> displaced.connectionPoints,
              snapQuality |-> displaced.quality ]

\* proposals.push({...}) from the projection result
ProjectionProposal(base, projected, replacementSegment) ==
    base @@ [ proposedGeometry |-> projected.geometry,
              proposedSegment |-> IF Len(projected.changedSegment) > 0
                                  THEN projected.changedSegment ELSE replacementSegment,
              changedSegment |-> IF Len(projected.changedSegment) > 0
                                 THEN projected.changedSegment ELSE replacementSegment,
              connectionPoints |-> projected.connectionPoints,
              snapQuality |-> projected.quality ]

\* Fallback: projection-based sync of the replacement segment
ProjectionFallback(base, neighbourGeom, adjacentInfo, newRing, replacementSegment) ==
    IF newRing = NoRing THEN << >>
    ELSE IF Len(replacementSegment) < 2 THEN << >>
    ELSE << ProjectionProposal(base,
                syncBoundaryByProjection(neighbourGeom, replacementSegment, adjacentInfo),
                replacementSegment) >>

\* Primary: displacement-based sync, used when it displaced a vertex
SyncedProposal(base, neighbourGeom, adjacentInfo, oldEditedGeometry, oldRing, newRing, displaced) ==
    IF UseDisplacement(oldEditedGeometry, oldRing, newRing, displaced.displacedCount)
    THEN << DisplacementProposal(base, displaced) >>
    ELSE ProjectionFallback(base, neighbourGeom, adjacentInfo, newRing,
             extractSegmentFromRing(newRing, adjacentInfo.editedStartIndex,
                                    adjacentInfo.editedEndIndex))

\* the loop body once the neighbour ring is known
ProposalOnRing(neighbour, neighbourGeom, adjacentInfo, originalSegment, oldEditedGeometry, oldRing, newRing) ==
    IF Len(originalSegment) < 2 THEN << >>
    ELSE SyncedProposal(ProposalBase(neighbour, neighbourGeom, originalSegment),
             neighbourGeom, adjacentInfo, oldEditedGeometry, oldRing, newRing,
             syncBoundaryByDisplacement(neighbourGeom, oldRing, newRing,
                 adjacentInfo.polygonIndex, adjacentInfo.ringIndex))

\* the loop body once the neighbour patch is found
ProposalForPatch(neighbour, neighbourGeom, adjacentInfo, neighbourRing, editedGeometry, oldEditedGeometry) ==
    IF neighbourGeom = NoGeom THEN << >>
    ELSE IF neighbourRing = NoRing THEN << >>
    ELSE ProposalOnRing(neighbour, neighbourGeom, adjacentInfo,
             extractSegmentFromRing(neighbourRing, adjacentInfo.startIndex,
                                    adjacentInfo.endIndex),
             oldEditedGeometry,
             IF oldEditedGeometry = NoGeom THEN NoRing
             ELSE RingAt(oldEditedGeometry, adjacentInfo.editedPolygonIndex,
                         adjacentInfo.editedRingIndex),
             RingAt(editedGeometry, adjacentInfo.editedPolygonIndex,
                    adjacentInfo.editedRingIndex))

\* the proposal of one neighbour: << >> when the loop body "continue"s
\* before pushing, else a one-element sequence
ProposalOf(neighbour, editedGeometry, allPatches, oldEditedGeometry) ==
    IF FindPatchIndex(allPatches, neighbour.patchId) = 0 THEN << >>
    ELSE ProposalForPatch(neighbour,
             allPatches[FindPatchIndex(allPatches, neighbour.patchId)].geometry,
             neighbour.adjacentInfo,
             IF allPatches[FindPatchIndex(allPatches, neighbour.patchId)].geometry = NoGeom
             THEN NoRing
             ELSE RingAt(allPatches[FindPatchIndex(allPatches, neighbour.patchId)].geometry,
                         neighbour.adjacentInfo.polygonIndex,
                         neighbour.adjacentInfo.ringIndex),
             editedGeometry, oldEditedGeometry)

generateBoundaryProposals(analysis, editedGeometry, allPatches, oldEditedGeometry) ==
    Flatten([k \in 1..Len(analysis.neighbours) |->
                ProposalOf(analysis.neighbours[k], editedGeometry, allPatches,
                           oldEditedGeometry)])

\* ── Inputs: patches on the grid ──────────────────────────────────────
\* rotations of a neighbour ring's start vertex that are tried
MaxRot == 2

RECURSIVE Multiples(_, _, _)
\* the multiples of step strictly between lo and hi, ascending
Multiples(step, lo, hi) ==
    IF lo + step >= hi THEN << >>
    ELSE << lo + step >> \o Multiples(step, lo + step, hi)

\* open counter-clockwise ring of the rectangle [x0, x1] x [y0, y1] with
\* extra vertices every eStep on its east side and every wStep on its west side
RectOpen(x0, y0, x1, y1, eStep, wStep) ==
    LET east == Multiples(eStep, y0, y1)
        west == Reverse(Multiples(wStep, y0, y1))
    IN  << << x0, y0 >>, << x1, y0 >> >>
        \o [k \in 1..Len(east) |-> << x1, east[k] >>]
        \o << << x1, y1 >>, << x0, y1 >> >>
        \o [k \in 1..Len(west) |-> << x0, west[k] >>]

\* closed ring: optionally clockwise, started rot vertices further on
MakeRing(open, rot, cw) ==
    LET o == IF cw THEN Reverse(open) ELSE open
        n == Len(o)
        r == rot % n
    IN  [k \in 1..(n + 1) |-> o[((k - 1 + r) % n) + 1]]

\* makePatch(id, code, coords) of the tests: one polygon, one ring
makePatch(id, code, ring) == [id |-> id, code |-> code, geometry |-> << << ring >> >>]

editedPatchId == "edited"

\* ── Scenarios ────────────────────────────────────────────────────────
\* The edited patch is the rectangle [0,8] x [0,8]; the edit moves its
\* east side by d steps (d < 0 retracts it, d > 0 pushes it out) and may
\* drop its interior vertices (simplification).  Neighbour n1 lies to the
\* east, its west side off steps from the old east side.
\*   sA : spacing of the vertices on the edited east side (8: corners only)
\*   simp : the new ring keeps only the corners of the east side
\*   sB : spacing of the vertices on the neighbour's west side
\*   cwA, cwB : the ring is stored clockwise ; rotB : start vertex of n1's ring
AdjacencyScenarios ==
    [ kind : {"plain"}, sA : {2, 4, 8}, simp : {FALSE}, d : {0},
      off : {0, 3}, sB : {2, 4, 8}, cwA : BOOLEAN, cwB : BOOLEAN,
      rotB : 0..MaxRot ]

EditScenarios ==
    [ kind : {"plain"}, sA : {2, 4}, simp : BOOLEAN, d : {-5, -1, 1},
      off : {0, 3, 4, 5}, sB : {2}, cwA : {FALSE}, cwB : {FALSE},
      rotB : {0, MaxRot} ]

\*   short : n1 is only 3 steps high      dup : a copy of the edited patch
\*   multi : n1 has another polygon, north of the edited patch, stored first
\*   twoPoly : the edited patch has a second polygon, north of the first
\*   cover : patch c1 already covers the strip x in [5,8] of the edited patch
\*   flat : as cover, and patch z1 is a ring of two vertices on the east side
\*   partial : patch c1 covers [3,8] x [0,8] except the two cells [3,4] x [6,8]
\*   west : patch w1 lies west of the edited patch, on the side no edit moves
VariantScenarios ==
    [ kind : {"short", "dup", "multi", "twoPoly", "cover", "flat", "partial"}, sA : {2}, simp : {FALSE},
      d : {-5, 0, 1}, off : {-1, 0, 3}, sB : {2}, cwA : {FALSE}, cwB : {FALSE},
      rotB : {0} ]

\*   inner : n1 is [8,16] x [2,6], beside the inside of the edited east side
WindingScenarios ==
    [ kind : {"inner"}, sA : {2, 8}, simp : {FALSE}, d : {0}, off : {0},
      sB : {2}, cwA : BOOLEAN, cwB : BOOLEAN, rotB : 0..MaxRot ]

\*   rotated : the edited ring starts at (8,4), in the middle of its east side
RotatedScenarios ==
    [ kind : {"rotated"}, sA : {2}, simp : {FALSE}, d : {-1, 1}, off : {0},
      sB : {2}, cwA : {FALSE}, cwB : BOOLEAN, rotB : {0} ]

\*   long : the west side of the edited ring has vertices every 2 as well,
\*          and the edit moves its vertex (0,2) inwards by d, far from n1
LongScenarios ==
    [ kind : {"long"}, sA : {2}, simp : {FALSE}, d : {1}, off : {0},
      sB : {2}, cwA : {FALSE}, cwB : BOOLEAN, rotB : {0} ]

\*   low : n1 is [8,16] x [1,3], its west side near one vertex of a
\*         simplified east side
DegenerateScenarios ==
    [ kind : {"low"}, sA : {2, 8}, simp : {FALSE}, d : {0}, off : {0},
      sB : {1}, cwA : {FALSE}, cwB : BOOLEAN, rotB : {0} ]

Scenarios ==
    AdjacencyScenarios \cup EditScenarios \cup VariantScenarios \cup WindingScenarios
        \cup RotatedScenarios \cup LongScenarios \cup DegenerateScenarios

\* swap x and y: mirrors a ring in the diagonal (and flips its winding)
Transpose(ring) == [k \in 1..Len(ring) |-> << ring[k][2], ring[k][1] >>]

\* [0,8] x [0,8] with vertices every 2 on both sides, the vertex (0,2)
\* moved to (bump,2)
LongOpen(bump) == [RectOpen(0, 0, 8, 8, 2, 2) EXCEPT ![10] = << bump, 2 >>]

EditedRing(c, east, simplified) ==
    IF c.kind = "long" THEN MakeRing(LongOpen(east - 8), 0, c.cwA)
    ELSE MakeRing(RectOpen(0, 0, east, 8, IF simplified THEN 8 ELSE c.sA, 8),
                  IF c.kind = "rotated" THEN 3 ELSE 0, c.cwA)

\* second polygon of the edited patch: [0,8] x [10,14], east side spaced 2
SecondPolygon(c, east) == << MakeRing(RectOpen(0, 10, east, 14, 2, 8), 0, c.cwA) >>

EditedGeometry(c, east, simplified) ==
    IF c.kind = "twoPoly"
    THEN << << EditedRing(c, east, simplified) >>, SecondPolygon(c, east) >>
    ELSE << << EditedRing(c, east, simplified) >> >>

OldGeometryOf(c) == EditedGeometry(c, 8, FALSE)

NewGeometryOf(c) == EditedGeometry(c, 8 + c.d, c.simp)

\* the simplified ring before the user moved it
SimplifiedGeometryOf(c) == EditedGeometry(c, 8, c.simp)

NeighbourRing(c) ==
    LET top == IF c.kind = "short" THEN 3
               ELSE IF c.kind = "twoPoly" THEN 14
               ELSE IF c.kind = "inner" THEN 6
               ELSE IF c.kind = "low" THEN 3 ELSE 8
        bottom == IF c.kind = "inner" THEN 2
                  ELSE IF c.kind = "low" THEN 1 ELSE 0
    IN  MakeRing(RectOpen(8 + c.off, bottom, 16 + c.off, top, 8, c.sB), c.rotB, c.cwB)

\* a degenerate ring: two vertices on the old east side, and the closing one
FlatRing == << << 8, 0 >>, << 8, 8 >>, << 8, 0 >> >>

\* [3,8] x [0,8] with the corner [3,4] x [6,8] cut out
NotchedRing ==
    << << 3, 0 >>, << 8, 0 >>, << 8, 8 >>, << 4, 8 >>, << 4, 6 >>, << 3, 6 >>, << 3, 0 >> >>

\* [-8,0] x [0,8] west of the edited patch, its east side spaced 2
WestRing == MakeRing(RectOpen(-8, 0, 0, 8, 2, 8), 0, FALSE)

\* [0,8] x [8,14] north of the edited patch, its south side spaced 4
NorthRing == Transpose(MakeRing(RectOpen(8, 0, 14, 8, 8, 4), 0, FALSE))

PatchesOf(c) ==
    LET edited == [id |-> editedPatchId, code |-> "E-000", geometry |-> OldGeometryOf(c)]
        n1 == IF c.kind = "multi"
              THEN [id |-> "n1", code |-> "N-001",
                    geometry |-> << << NorthRing >>, << NeighbourRing(c) >> >>]
              ELSE makePatch("n1", "N-001", NeighbourRing(c))
    IN  IF c.kind = "dup"
        THEN << n1, edited, [id |-> "d1", code |-> "D-001", geometry |-> OldGeometryOf(c)] >>
        ELSE IF c.kind = "cover"
        THEN << edited, n1, makePatch("c1", "C-001",
                                MakeRing(RectOpen(5, 0, 8, 8, 8, 8), 0, FALSE)) >>
        ELSE IF c.kind = "partial"
        THEN << edited, n1, makePatch("c1", "C-001", NotchedRing) >>
        ELSE IF c.kind = "west"
        THEN << edited, n1, makePatch("w1", "W-001", WestRing) >>
        ELSE IF c.kind = "flat"
        THEN << edited, n1,
                makePatch("c1", "C-001", MakeRing(RectOpen(5, 0, 8, 8, 8, 8), 0, FALSE)),
                makePatch("z1", "Z-001", FlatRing) >>
        ELSE << edited, n1 >>

\* ── State ────────────────────────────────────────────────────────────
VARIABLES
    oldGeometry,          \* geometry of the edited patch before the edit
    newGeometry,          \* geometry of the edited patch after the edit
    simplifiedGeometry,   \* the simplified geometry the user refined
    allPatches,           \* the pre-edit feature list
    op,                   \* the engine function applied last ("init": none)
    args,                 \* its arguments
    result                \* its return value

\* the edit session of the page: the state of usePatchEditor and of Home
VARIABLES
    selectedPatchId,          \* NoId: null
    editMode,                 \* 'view' | 'draw' | 'simplify' | 'simplify-refine'
    modifiedGeometries,       \* Map<id, Geometry>: NoGeom where there is no entry
    dirtyPatchIds,
    newPatches,
    deletedPatchIds,
    editorSimplifiedGeometry, \* the hook's simplifiedGeometry, NoGeom: null
    linkedPatchIds,
    pendingGeometry,          \* NoGeom: null
    saving,                   \* the handleSave call in flight and what it captured
    database,                 \* the rows of table patches
    handled                   \* the number of handlers run so far

session == << selectedPatchId, editMode, modifiedGeometries, dirtyPatchIds, newPatches,
             deletedPatchIds, editorSimplifiedGeometry, linkedPatchIds, pendingGeometry,
             saving, database, handled >>

\* the simplification panel: the props, state and refs of SimplifyPanel
VARIABLES
    panelPatch,                   \* the prop patch: the id of the patch the panel is given
    isRefining,
    loading,
    sliderValue,
    stats,                        \* NoStats: null
    currentSimplified,            \* NoSimplified: null
    backgroundRefining,
    isApplying,
    initialComputationRanRef,
    initialNeighborsTriggeredRef,
    computeJobRef,
    previewTimeoutRef,            \* NoTimer: null
    refineTimeoutRef,             \* NoTimer: null
    skipNextSliderRef,
    lastRefinedRef,               \* NoRefined: null
    timers                        \* the timeouts set and neither fired nor cleared

panel == << panelPatch, isRefining, loading, sliderValue, stats, currentSimplified, backgroundRefining,
           isApplying, initialComputationRanRef, initialNeighborsTriggeredRef, computeJobRef,
           previewTimeoutRef, refineTimeoutRef, skipNextSliderRef, lastRefinedRef, timers >>

\* the undo journal: the state and ref of useEditHistory
VARIABLES
    past,
    present,
    future,
    initialized

history == << past, present, future, initialized >>

vars == << oldGeometry, newGeometry, simplifiedGeometry, allPatches, rejected, op, args, result, session, panel, history >>

inputs == << oldGeometry, newGeometry, simplifiedGeometry, allPatches, rejected >>

\* a null id
NoId == "none"

\* new patches that one session may hold
MaxNewPatches == 1

\* handlers that one session may run
MaxHandled == 6

\* crypto.randomUUID(): the id of the k-th patch added is fresh
NewPatchIds == << "p1", "p2", "p3" >>

\* the page has no save in flight
NotSaving == [active |-> FALSE, dirtyIds |-> {}, newPatches |-> << >>, modifiedGeometries |-> << >>]

\* the ids a session can meet: the loaded patches and the patches drawn
SessionIds ==
    {allPatches[k].id : k \in 1..Len(allPatches)} \cup {NewPatchIds[k] : k \in 1..Len(NewPatchIds)}

\* useState initial values, the patches loaded
SessionStart ==
    /\ selectedPatchId = NoId
    /\ editMode = "view"
    /\ modifiedGeometries = [id \in SessionIds |-> NoGeom]
    /\ dirtyPatchIds = {}
    /\ newPatches = << >>
    /\ deletedPatchIds = {}
    /\ editorSimplifiedGeometry = NoGeom
    /\ linkedPatchIds = {}
    /\ pendingGeometry = NoGeom
    /\ saving = NotSaving
    /\ database = allPatches
    /\ handled = 0

\* ── Simplification panel: values ─────────────────────────────────────
\* null, where the panel holds a record
NoStats == [of |-> "none"]

NoTimer == [kind |-> "none"]

NoRefined == [geometry |-> "none"]

NoSimplified == [of |-> "none"]

\* const [sliderValue, setSliderValue] = useState(100)
InitialSliderValue == 100

\* the tolerance of a slider position, logToTolerance(sliderToLog(v)), in
\* half steps of the slider
ToleranceOfSlider(v) == 2 * v

\* logToSlider(toleranceToLog(t)): Math.round to the nearest position
SliderOfTolerance(t) == (t + 1) \div 2

\* the timeout of the initial computation, set on mount for this patch
InitialTimer(id) == [kind |-> "initial", jobId |-> 0, patch |-> id, tolerance |-> 0, triggerInitialNeighbors |-> FALSE]

\* the panel after its first render and effects, given the edited patch
PanelStart ==
    /\ panelPatch = editedPatchId
    /\ isRefining = FALSE
    /\ loading = TRUE
    /\ sliderValue = InitialSliderValue
    /\ stats = NoStats
    /\ currentSimplified = NoSimplified
    /\ backgroundRefining = FALSE
    /\ isApplying = FALSE
    /\ initialComputationRanRef = TRUE
    /\ initialNeighborsTriggeredRef = FALSE
    /\ computeJobRef = 1
    /\ previewTimeoutRef = NoTimer
    /\ refineTimeoutRef = NoTimer
    /\ skipNextSliderRef = FALSE
    /\ lastRefinedRef = NoRefined
    /\ timers = {InitialTimer(editedPatchId)}

\* ── Undo journal: values ─────────────────────────────────────────────
\* a GeometrySnapshot, Map<string, Geometry>, is the set of its entries
\* new Map()
EmptySnapshot == {}

\* useState initial values, initialized = useRef(false)
HistoryStart ==
    /\ past = << >>
    /\ present = EmptySnapshot
    /\ future = << >>
    /\ initialized = FALSE

\* the inputs of scenario c, no engine function applied yet
Loaded(c) ==
    /\ oldGeometry = OldGeometryOf(c)
    /\ newGeometry = NewGeometryOf(c)
    /\ simplifiedGeometry = SimplifiedGeometryOf(c)
    /\ allPatches = PatchesOf(c)
    /\ SessionStart
    /\ PanelStart
    /\ HistoryStart

SetUp(c) ==
    /\ Loaded(c)
    /\ op = "init"
    /\ args = << >>
    /\ result = << >>

\* the geometries of the patches other than the edited one
OtherGeometries(c) ==
    {PatchesOf(c)[k].geometry :
        k \in {k \in 1..Len(PatchesOf(c)) : PatchesOf(c)[k].id # editedPatchId}}

\* the library works on every geometry
Init ==
    \E c \in Scenarios :
        /\ SetUp(c)
        /\ rejected = {}

\* the library fails on any of the other patches' geometries
InitWithFailures ==
    \E c \in VariantScenarios :
        /\ SetUp(c)
        /\ rejected \in SUBSET OtherGeometries(c)

\* ── Operations ───────────────────────────────────────────────────────
Apply(name, a, r) ==
    /\ op' = name
    /\ args' = a
    /\ result' = r
    /\ UNCHANGED << inputs, session, panel, history >>

\* the preEditSimplifiedGeometry passed: none, the simplified geometry, its
\* first polygon alone, a geometry whose ring has 2 open vertices
PreEditChoices ==
    {NoGeom, simplifiedGeometry, << simplifiedGeometry[1] >>, << << FlatRing >> >>}

\* analysePostEdit(editedPatchId, oldGeometry, newGeometry, preEditFeatures, pre?)
AnalysePostEdit ==
    /\ op = "init"
    /\ \E pre \in PreEditChoices :
        Apply("analysePostEdit", [preEditSimplifiedGeometry |-> pre],
              analysePostEdit(editedPatchId, oldGeometry, newGeometry, allPatches, pre))

\* detectNeighbors(patchId, geometry, allPatches) before the edit
DetectNeighbors ==
    /\ op = "init"
    /\ Apply("detectNeighbors", << >>,
          detectNeighbors(editedPatchId, oldGeometry, allPatches))

\* findAdjacentPatches with any ring of any patch in the role of the edited ring
FindAdjacentPatches ==
    /\ op = "init"
    /\ \E k \in 1..Len(allPatches) :
       \E pi \in 0..(Len(allPatches[k].geometry) - 1) :
        Apply("findAdjacentPatches",
              [ editedPatchId |-> allPatches[k].id,
                editedRing |-> allPatches[k].geometry[pi + 1][1],
                editedPolygonIndex |-> pi,
                editedRingIndex |-> 0 ],
              findAdjacentPatches(allPatches[k].id, allPatches[k].geometry[pi + 1][1],
                                  allPatches, pi, 0))

\* the indices tried on a ring of n open vertices: the first two and the
\* last two
IndexSamples(n) == {0, 1, n - 2, n - 1}

\* the indices tried on a ring, with the open vertex count, which is out
\* of range
SpliceIndices(ring) ==
    IndexSamples(getOpenVertexCount(ring)) \cup {getOpenVertexCount(ring)}

\* the first ring of the edited geometry and the first rings of the
\* patches that have fewer than 3 open vertices
RingsToExtractFrom ==
    {newGeometry[1][1]} \cup
    {allPatches[k].geometry[1][1] :
        k \in {k \in 1..Len(allPatches) :
                  getOpenVertexCount(allPatches[k].geometry[1][1]) < 3}}

\* extractSegmentFromRing on one of these rings; an index equal to the
\* open vertex count is out of range
ExtractSegmentFromRing ==
    /\ op = "init"
    /\ \E ring \in RingsToExtractFrom :
       \E startIndex \in SpliceIndices(ring), endIndex \in SpliceIndices(ring) :
                Apply("extractSegmentFromRing",
                      [ring |-> ring, startIndex |-> startIndex, endIndex |-> endIndex],
                      extractSegmentFromRing(ring, startIndex, endIndex))

\* the east side of the first ring of the edited geometry: the polyline
\* between its two vertices with the largest x
EastSide(ring) ==
    LET n == getOpenVertexCount(ring)
        maxX == getRingBBox(ring)[3]
        onEast == {i \in 0..(n - 1) : At(ring, i)[1] = maxX}
        first == CHOOSE i \in onEast : ((i + n - 1) % n) \notin onEast
        last == CHOOSE i \in onEast : ((i + 1) % n) \notin onEast
    IN  extractSegmentFromRing(ring, first, last)

\* syncBoundaryByProjection of a neighbour ring onto the new east side,
\* for shared ranges of the neighbour ring (wrapped or not) and both windings
SyncBoundaryByProjection ==
    /\ op = "init"
    /\ \E k \in 1..Len(allPatches) :
        /\ allPatches[k].id # editedPatchId
        /\ LET geom == allPatches[k].geometry
               n == getOpenVertexCount(geom[1][1])
           IN  \E startIndex \in IndexSamples(n), endIndex \in IndexSamples(n),
                  isReversed \in BOOLEAN :
                   LET adjacentInfo ==
                           [ patchId |-> allPatches[k].id,
                             patchCode |-> allPatches[k].code,
                             startIndex |-> startIndex, endIndex |-> endIndex,
                             ringIndex |-> 0, polygonIndex |-> 0,
                             editedStartIndex |-> 0, editedEndIndex |-> 0,
                             editedRingIndex |-> 0, editedPolygonIndex |-> 0,
                             matchedVertexCount |-> Len(RangeIndices(startIndex, endIndex, n)),
                             isReversed |-> isReversed ]
                       editedPolyline == EastSide(newGeometry[1][1])
                   IN  Apply("syncBoundaryByProjection",
                             [ neighbourGeometry |-> geom,
                               editedPolyline |-> editedPolyline,
                               adjacentInfo |-> adjacentInfo ],
                             syncBoundaryByProjection(geom, editedPolyline, adjacentInfo))

\* an adjacency record that names the range startIndex..endIndex of the
\* first ring of a patch
RecordOn(patch, startIndex, endIndex, isReversed) ==
    [ patchId |-> patch.id,
      patchCode |-> patch.code,
      startIndex |-> startIndex, endIndex |-> endIndex,
      ringIndex |-> 0, polygonIndex |-> 0,
      editedStartIndex |-> 0, editedEndIndex |-> 0,
      editedRingIndex |-> 0, editedPolygonIndex |-> 0,
      matchedVertexCount |-> 0,
      isReversed |-> isReversed ]

\* syncAdjacentBoundary of a neighbour ring with the new east side, for
\* ranges of the neighbour ring (wrapped, whole ring, out of range) and
\* both windings
SyncAdjacentBoundary ==
    /\ op = "init"
    /\ \E k \in 1..Len(allPatches) :
        /\ allPatches[k].id # editedPatchId
        /\ \E startIndex \in SpliceIndices(allPatches[k].geometry[1][1]),
              endIndex \in SpliceIndices(allPatches[k].geometry[1][1]),
              isReversed \in BOOLEAN :
                Apply("syncAdjacentBoundary",
                      [ neighbourGeometry |-> allPatches[k].geometry,
                        newSegmentPositions |-> EastSide(newGeometry[1][1]),
                        adjacentInfo |-> RecordOn(allPatches[k], startIndex, endIndex,
                                                  isReversed) ],
                      syncAdjacentBoundary(allPatches[k].geometry,
                          EastSide(newGeometry[1][1]),
                          RecordOn(allPatches[k], startIndex, endIndex, isReversed)))

\* syncBoundaryByDisplacement of any ring of any other patch
SyncBoundaryByDisplacement ==
    /\ op = "init"
    /\ \E k \in 1..Len(allPatches) :
        /\ allPatches[k].id # editedPatchId
        /\ \E pi \in 0..(Len(allPatches[k].geometry) - 1) :
              Apply("syncBoundaryByDisplacement",
                    [ neighbourGeometry |-> allPatches[k].geometry,
                      oldEditedRing |-> oldGeometry[1][1],
                      newEditedRing |-> newGeometry[1][1],
                      polygonIndex |-> pi, ringIndex |-> 0 ],
                    syncBoundaryByDisplacement(allPatches[k].geometry,
                        oldGeometry[1][1], newGeometry[1][1], pi, 0))

\* generateBoundaryProposals on the analysis just computed, with or
\* without the old edited geometry
GenerateBoundaryProposals ==
    /\ op = "analysePostEdit"
    /\ \E old \in {NoGeom, oldGeometry} :
          /\ op' = "generateBoundaryProposals"
          /\ args' = [analysis |-> result, oldEditedGeometry |-> old]
          /\ result' = generateBoundaryProposals(result, newGeometry, allPatches, old)
    /\ UNCHANGED << inputs, session, panel, history >>

Next ==
    \/ AnalysePostEdit
    \/ DetectNeighbors
    \/ FindAdjacentPatches
    \/ ExtractSegmentFromRing
    \/ SyncAdjacentBoundary
    \/ SyncBoundaryByProjection
    \/ SyncBoundaryByDisplacement
    \/ GenerateBoundaryProposals

Spec == Init /\ [][Next]_vars

SpecWithFailures == InitWithFailures /\ [][Next]_vars

\* ── Edit session: usePatchEditor ─────────────────────────────────────
\* slip: the new patches are not filtered by the deleted ids
workingWithAllNew(originals, modified, added, deleted) ==
    Flatten([k \in 1..Len(originals) |->
        IF originals[k].id \in deleted THEN << >>
        ELSE IF modified[originals[k].id] # NoGeom
        THEN << [originals[k] EXCEPT !.geometry = modified[originals[k].id]] >>
        ELSE << originals[k] >>])
    \o added

\* features: the originals that are not deleted, with the modified
\* geometry where there is one, then the new patches that are not deleted
workingFeatures(originals, modified, added, deleted) ==
    Flatten([k \in 1..Len(originals) |->
        IF originals[k].id \in deleted THEN << >>
        ELSE IF modified[originals[k].id] # NoGeom
        THEN << [originals[k] EXCEPT !.geometry = modified[originals[k].id]] >>
        ELSE << originals[k] >>])
    \o Flatten([k \in 1..Len(added) |->
        IF added[k].id \in deleted THEN << >> ELSE << added[k] >>])

workingFeatureCollection ==
    workingFeatures(allPatches, modifiedGeometries, newPatches, deletedPatchIds)

\* features.find(f => f.properties.id === selectedPatchId) ?? null
NoPatch == [id |-> NoId, code |-> "", geometry |-> NoGeom]

selectedPatch ==
    IF FindPatchIndex(workingFeatureCollection, selectedPatchId) = 0 THEN NoPatch
    ELSE workingFeatureCollection[FindPatchIndex(workingFeatureCollection, selectedPatchId)]

hasDirtyPatches == dirtyPatchIds # {}

\* const isEditingBoundary = editMode === 'simplify' || editMode === 'simplify-refine'
isEditingBoundary == editMode \in {"simplify", "simplify-refine"}

\* the session runs as an administrator
isAdmin == TRUE

\* one more handler has run
Counted ==
    /\ handled < MaxHandled
    /\ handled' = handled + 1
    /\ UNCHANGED << panel, history >>

\* a handler that reports nothing
Handled(name) ==
    /\ Counted
    /\ op' = "handled"
    /\ args' = << >>
    /\ result' = << >>
    /\ UNCHANGED inputs

\* ── Edit session: the handlers of the page ───────────────────────────
\* handleListSelect(id | null), handlePatchClick(id)
HandleListSelect ==
    /\ editMode = "view"
    /\ \E id \in IdsOfPatches(workingFeatureCollection) \cup {NoId} :
          /\ selectedPatchId' = id
          /\ editMode' = "view"
    /\ Handled("handleListSelect")
    /\ UNCHANGED << modifiedGeometries, dirtyPatchIds, newPatches, deletedPatchIds,
                    editorSimplifiedGeometry, linkedPatchIds, pendingGeometry, saving,
                    database >>

\* handleEditBoundary, from the details panel
HandleEditBoundary ==
    /\ selectedPatch # NoPatch
    /\ ~ isEditingBoundary
    /\ linkedPatchIds' = {}
    /\ editMode' = "simplify"
    /\ editorSimplifiedGeometry' = NoGeom
    /\ Handled("handleEditBoundary")
    /\ UNCHANGED << selectedPatchId, modifiedGeometries, dirtyPatchIds, newPatches,
                    deletedPatchIds, pendingGeometry, saving, database >>

\* what the simplifier hands over for the selected patch
SimplifiedOf(patch) ==
    IF patch.id = editedPatchId THEN simplifiedGeometry ELSE patch.geometry

\* what the user ends up with for the selected patch: the simplification
\* as it is, or the refined boundary
EditOf(patch) ==
    IF patch.id # editedPatchId THEN patch.geometry
    ELSE IF editMode = "simplify-refine" THEN newGeometry
    ELSE simplifiedGeometry

\* the neighbours the panel lists
PreEditNeighbourIds ==
    IdsOf(detectNeighbors(selectedPatch.id, SimplifiedOf(selectedPatch),
                          workingFeatureCollection))

\* handleInitialSimplificationComplete(simplifiedGeometry)
HandleInitialSimplificationComplete ==
    /\ selectedPatch # NoPatch
    /\ editMode = "simplify"
    /\ linkedPatchIds' = PreEditNeighbourIds
    /\ Handled("handleInitialSimplificationComplete")
    /\ UNCHANGED << selectedPatchId, editMode, modifiedGeometries, dirtyPatchIds, newPatches,
                    deletedPatchIds, editorSimplifiedGeometry, pendingGeometry, saving,
                    database >>

\* handleToggleLink(patchId) on a neighbour the panel lists
HandleToggleLink ==
    /\ selectedPatch # NoPatch
    /\ isEditingBoundary
    /\ \E patchId \in PreEditNeighbourIds :
          linkedPatchIds' = IF patchId \in linkedPatchIds
                            THEN linkedPatchIds \ {patchId}
                            ELSE linkedPatchIds \cup {patchId}
    /\ Handled("handleToggleLink")
    /\ UNCHANGED << selectedPatchId, editMode, modifiedGeometries, dirtyPatchIds, newPatches,
                    deletedPatchIds, editorSimplifiedGeometry, pendingGeometry, saving,
                    database >>

\* handleRefine(geometry): enterRefineMode
HandleRefine ==
    /\ selectedPatch # NoPatch
    /\ editMode = "simplify"
    /\ editorSimplifiedGeometry' = SimplifiedOf(selectedPatch)
    /\ editMode' = "simplify-refine"
    /\ Handled("handleRefine")
    /\ UNCHANGED << selectedPatchId, modifiedGeometries, dirtyPatchIds, newPatches,
                    deletedPatchIds, linkedPatchIds, pendingGeometry, saving, database >>

\* handleCancelEdit
HandleCancelEdit ==
    /\ selectedPatch # NoPatch
    /\ isEditingBoundary
    /\ editMode' = "view"
    /\ editorSimplifiedGeometry' = NoGeom
    /\ linkedPatchIds' = {}
    /\ Handled("handleCancelEdit")
    /\ UNCHANGED << selectedPatchId, modifiedGeometries, dirtyPatchIds, newPatches,
                    deletedPatchIds, pendingGeometry, saving, database >>

\* ── Edit session: applyBoundaryEdit ──────────────────────────────────
\* slip: a linked proposal is applied whatever its quality
AutoAppliesAnyQuality(proposal, currentLinkedIds) ==
    proposal.patchId \in currentLinkedIds

\* if (!currentLinkedIds.has(proposal.patchId)) continue ;
\* if (proposal.snapQuality === 'good') updateGeometry
AutoApplies(proposal, currentLinkedIds) ==
    /\ proposal.patchId \in currentLinkedIds
    /\ proposal.snapQuality = "good"

\* else poorQualityLinked.push(proposal)
NeedsReview(proposal, currentLinkedIds) ==
    /\ proposal.patchId \in currentLinkedIds
    /\ ~ AutoApplies(proposal, currentLinkedIds)

\* if (currentLinkedIds.size > 0 && analysis.neighbours.length > 0)
\* proposals = generateBoundaryProposals(...), else none
ProposalsForEdit(analysis, geometry, features, oldEditedGeometry, currentLinkedIds) ==
    IF currentLinkedIds # {} /\ Len(analysis.neighbours) > 0
    THEN generateBoundaryProposals(analysis, geometry, features, oldEditedGeometry)
    ELSE << >>

\* autoApplied: the proposals of the loop that were applied, in order
AutoApplied(proposals, currentLinkedIds) ==
    SelectSeqBy(proposals,
        {proposals[k] : k \in {k \in 1..Len(proposals) :
                                  AutoApplies(proposals[k], currentLinkedIds)}})

\* poorQualityLinked
PoorQualityLinked(proposals, currentLinkedIds) ==
    SelectSeqBy(proposals,
        {proposals[k] : k \in {k \in 1..Len(proposals) :
                                  NeedsReview(proposals[k], currentLinkedIds)}})

RECURSIVE WithProposed(_, _)
\* updateGeometry(proposal.patchId, proposal.proposedGeometry) for each
WithProposed(modified, applied) ==
    IF applied = << >> THEN modified
    ELSE WithProposed([modified EXCEPT ![Head(applied).patchId] = Head(applied).proposedGeometry],
                      Tail(applied))

\* neighbours.filter(n => n.relationship !== 'aligned') after the
\* auto-applied ones are marked aligned
RemainingNeighbours(analysis, autoApplied) ==
    SelectSeqBy(analysis.neighbours,
        {analysis.neighbours[k] : k \in {k \in 1..Len(analysis.neighbours) :
            /\ analysis.neighbours[k].patchId \notin IdsOf(autoApplied)
            /\ analysis.neighbours[k].relationship # "aligned"}})

\* what the handler leaves for the dialogs
ReviewOf(analysis, proposals, autoApplied, poorQualityLinked) ==
    [ proposals |-> proposals,
      autoApplied |-> autoApplied,
      poorQualityLinked |-> poorQualityLinked,
      showPostEditDialog |->
          \/ RemainingNeighbours(analysis, autoApplied) # << >>
          \/ analysis.duplicates # << >>
          \/ analysis.gapGeometry # NullFeature
          \/ poorQualityLinked # << >>,
      alignmentProposals |->
          IF /\ poorQualityLinked # << >>
             /\ RemainingNeighbours(analysis, autoApplied) = << >>
             /\ analysis.duplicates = << >>
          THEN poorQualityLinked ELSE << >> ]

\* the state the handler leaves once the proposals are known
EditApplied(patch, geometry, analysis, proposals) ==
    /\ modifiedGeometries' =
          WithProposed([modifiedGeometries EXCEPT ![patch.id] = geometry],
                       AutoApplied(proposals, linkedPatchIds))
    /\ dirtyPatchIds' = dirtyPatchIds \cup {patch.id}
                        \cup IdsOf(AutoApplied(proposals, linkedPatchIds))
    /\ editMode' = "view"
    /\ editorSimplifiedGeometry' = NoGeom
    /\ linkedPatchIds' = {}
    /\ Counted
    /\ op' = "applyBoundaryEdit"
    /\ args' = [patchId |-> patch.id, geometry |-> geometry,
                currentLinkedIds |-> linkedPatchIds]
    /\ result' = ReviewOf(analysis, proposals, AutoApplied(proposals, linkedPatchIds),
                          PoorQualityLinked(proposals, linkedPatchIds))
    /\ UNCHANGED << inputs, selectedPatchId, newPatches, deletedPatchIds, pendingGeometry,
                    saving, database >>

\* the handler once the analysis is known; the feature list given to
\* generateBoundaryProposals is the one of the render, before the edit
EditAnalysed(patch, geometry, analysis) ==
    EditApplied(patch, geometry, analysis,
        ProposalsForEdit(analysis, geometry, workingFeatureCollection, patch.geometry,
                         linkedPatchIds))

\* applyBoundaryEdit(geometry), from handleApplySimplification or
\* handleRefineComplete
ApplyBoundaryEdit ==
    /\ selectedPatch # NoPatch
    /\ isEditingBoundary
    /\ EditAnalysed(selectedPatch, EditOf(selectedPatch),
           analysePostEdit(selectedPatch.id, selectedPatch.geometry, EditOf(selectedPatch),
                           workingFeatureCollection, editorSimplifiedGeometry))

\* ── Edit session: new patches, deletion, import ──────────────────────
\* the polygon the user draws: [20,24] x [0,4], away from every patch
DrawnGeometry == << << MakeRing(RectOpen(20, 0, 24, 4, 8, 8), 0, FALSE) >> >>

\* the feature of the imported file: patch n1 as the rectangle
\* [8,16] x [0,8] with its corners only
ImportedPatch == makePatch("n1", "N-001", MakeRing(RectOpen(8, 0, 16, 8, 8, 8), 0, FALSE))

\* the feature of a file exported after a patch was drawn and edited
\* elsewhere: the id of the first patch drawn, as the rectangle
\* [20,26] x [0,4]
ReimportedPatch == makePatch(NewPatchIds[1], "P-NEW", MakeRing(RectOpen(20, 0, 26, 4, 8, 8), 0, FALSE))

\* the files the user imports, one feature each
ImportedFeatures == {ImportedPatch, ReimportedPatch}

\* handleDrawNew: the button is there unless the mode is 'draw'
HandleDrawNew ==
    /\ isAdmin
    /\ editMode # "draw"
    /\ Len(newPatches) < MaxNewPatches
    /\ selectedPatchId' = NoId
    /\ editMode' = "draw"
    /\ Handled("handleDrawNew")
    /\ UNCHANGED << modifiedGeometries, dirtyPatchIds, newPatches, deletedPatchIds,
                    editorSimplifiedGeometry, linkedPatchIds, pendingGeometry, saving,
                    database >>

\* handleCancelDraw
HandleCancelDraw ==
    /\ editMode = "draw"
    /\ editMode' = "view"
    /\ editorSimplifiedGeometry' = NoGeom
    /\ Handled("handleCancelDraw")
    /\ UNCHANGED << selectedPatchId, modifiedGeometries, dirtyPatchIds, newPatches,
                    deletedPatchIds, linkedPatchIds, pendingGeometry, saving, database >>

\* handleNewPolygonComplete(geometry)
HandleNewPolygonComplete ==
    /\ editMode = "draw"
    /\ pendingGeometry' = DrawnGeometry
    /\ editMode' = "view"
    /\ editorSimplifiedGeometry' = NoGeom
    /\ Handled("handleNewPolygonComplete")
    /\ UNCHANGED << selectedPatchId, modifiedGeometries, dirtyPatchIds, newPatches,
                    deletedPatchIds, linkedPatchIds, saving, database >>

\* handleNewPatchConfirm(code, name): addNewPatch of a patch with a fresh id
HandleNewPatchConfirm ==
    /\ pendingGeometry # NoGeom
    /\ Len(newPatches) < MaxNewPatches
    /\ newPatches' = Append(newPatches,
                            [ id |-> NewPatchIds[Len(newPatches) + 1], code |-> "P-NEW",
                              geometry |-> pendingGeometry ])
    /\ dirtyPatchIds' = dirtyPatchIds \cup {NewPatchIds[Len(newPatches) + 1]}
    /\ pendingGeometry' = NoGeom
    /\ Handled("handleNewPatchConfirm")
    /\ UNCHANGED << selectedPatchId, editMode, modifiedGeometries, deletedPatchIds,
                    editorSimplifiedGeometry, linkedPatchIds, saving, database >>

\* the rows without the one of this id
WithoutRow(rows, id) ==
    SelectSeqBy(rows, {rows[k] : k \in {k \in 1..Len(rows) : rows[k].id # id}})

\* handleDelete, from the details panel: the row is deleted, then
\* markDeleted; nothing changes when the request fails
HandleDelete ==
    /\ selectedPatch # NoPatch
    /\ ~ isEditingBoundary
    /\ isAdmin
    /\ \E failed \in BOOLEAN :
          IF failed
          THEN UNCHANGED << selectedPatchId, editMode, deletedPatchIds, database >>
          ELSE /\ database' = WithoutRow(database, selectedPatch.id)
               /\ deletedPatchIds' = deletedPatchIds \cup {selectedPatch.id}
               /\ selectedPatchId' = NoId
               /\ editMode' = "view"
    /\ Handled("handleDelete")
    /\ UNCHANGED << modifiedGeometries, dirtyPatchIds, newPatches, editorSimplifiedGeometry,
                    linkedPatchIds, pendingGeometry, saving >>

\* handleImport([patch]): updateGeometry when the id is in the working
\* set, else addNewPatch
HandleImport ==
    /\ isAdmin
    /\ \E patch \in ImportedFeatures :
          /\ IF patch.id \in IdsOfPatches(workingFeatureCollection)
             THEN /\ modifiedGeometries' = [modifiedGeometries EXCEPT ![patch.id] = patch.geometry]
                  /\ UNCHANGED newPatches
             ELSE /\ Len(newPatches) < MaxNewPatches
                  /\ newPatches' = Append(newPatches, patch)
                  /\ UNCHANGED modifiedGeometries
          /\ dirtyPatchIds' = dirtyPatchIds \cup {patch.id}
    /\ Handled("handleImport")
    /\ UNCHANGED << selectedPatchId, editMode, deletedPatchIds, editorSimplifiedGeometry,
                    linkedPatchIds, pendingGeometry, saving, database >>

\* ── Edit session: handleSave ─────────────────────────────────────────
\* handleSave up to its first await: the button is disabled while a save
\* is in flight; the closure holds the editor of this render
HandleSave ==
    /\ isAdmin
    /\ hasDirtyPatches
    /\ ~ saving.active
    /\ saving' = [ active |-> TRUE, dirtyIds |-> dirtyPatchIds, newPatches |-> newPatches,
                   modifiedGeometries |-> modifiedGeometries ]
    /\ Handled("handleSave")
    /\ UNCHANGED << selectedPatchId, editMode, modifiedGeometries, dirtyPatchIds, newPatches,
                    deletedPatchIds, editorSimplifiedGeometry, linkedPatchIds,
                    pendingGeometry, database >>

\* the new patches the save in flight inserts
PatchesToInsert ==
    SelectSeqBy(saving.newPatches,
        {saving.newPatches[k] : k \in {k \in 1..Len(saving.newPatches) :
                                          saving.newPatches[k].id \in saving.dirtyIds}})

\* set_patch_geometries_from_wkt for the dirty patches that are not new
\* and have a modified geometry
WithSavedGeometries(rows) ==
    [k \in 1..Len(rows) |->
        IF /\ rows[k].id \in saving.dirtyIds
           /\ rows[k].id \notin IdsOfPatches(saving.newPatches)
           /\ saving.modifiedGeometries[rows[k].id] # NoGeom
        THEN [rows[k] EXCEPT !.geometry = saving.modifiedGeometries[rows[k].id]]
        ELSE rows[k]]

\* the rows after the requests of the loop: with the geometry calls
\* failing, the inserted rows have no geometry and the others keep theirs
RowsAfterSave(geometrySaved) ==
    IF geometrySaved THEN WithSavedGeometries(database) \o PatchesToInsert
    ELSE database \o [k \in 1..Len(PatchesToInsert) |->
                         [PatchesToInsert[k] EXCEPT !.geometry = NoGeom]]

\* .filter(row => row.geom_geojson != null)
FetchedFeatures(rows) ==
    SelectSeqBy(rows, {rows[k] : k \in {k \in 1..Len(rows) : rows[k].geometry # NoGeom}})

\* the loop ran to its end: clearDirty(), refetch()
SaveCompleted(geometrySaved) ==
    /\ IdsOfPatches(PatchesToInsert) \cap IdsOfPatches(database) = {}
    /\ database' = RowsAfterSave(geometrySaved)
    /\ allPatches' = FetchedFeatures(RowsAfterSave(geometrySaved))
    /\ dirtyPatchIds' = {}
    /\ result' = [outcome |-> IF geometrySaved THEN "saved" ELSE "geometryNotSaved",
                  dirtyIds |-> saving.dirtyIds]

\* a request threw (here the first one): the toast, nothing else
SaveFailed ==
    /\ UNCHANGED << database, allPatches, dirtyPatchIds >>
    /\ result' = [outcome |-> "failed", dirtyIds |-> saving.dirtyIds]

\* handleSave from its first await to its end
HandleSaveSettled ==
    /\ saving.active
    /\ \/ SaveCompleted(TRUE)
       \/ SaveCompleted(FALSE)
       \/ SaveFailed
    /\ saving' = NotSaving
    /\ Counted
    /\ op' = "handleSaveSettled"
    /\ args' = << >>
    /\ UNCHANGED << oldGeometry, newGeometry, simplifiedGeometry, rejected, selectedPatchId,
                    editMode, modifiedGeometries, newPatches, deletedPatchIds,
                    editorSimplifiedGeometry, linkedPatchIds, pendingGeometry >>

\* ── Edit session: specification ──────────────────────────────────────
\* the edited patch with its eastern and its western neighbour; the user
\* retracts the east side by one step, with or without simplification
SessionScenarios ==
    [ kind : {"west"}, sA : {2}, simp : BOOLEAN, d : {-1},
      off : {0}, sB : {2}, cwA : {FALSE}, cwB : {FALSE}, rotB : {0} ]

SessionInit ==
    \E c \in SessionScenarios :
        /\ SetUp(c)
        /\ rejected = {}

SessionNext ==
    \/ HandleListSelect
    \/ HandleEditBoundary
    \/ HandleInitialSimplificationComplete
    \/ HandleToggleLink
    \/ HandleRefine
    \/ HandleCancelEdit
    \/ ApplyBoundaryEdit
    \/ HandleDrawNew
    \/ HandleCancelDraw
    \/ HandleNewPolygonComplete
    \/ HandleNewPatchConfirm
    \/ HandleDelete
    \/ HandleImport
    \/ HandleSave
    \/ HandleSaveSettled

SessionSpec == SessionInit /\ [][SessionNext]_vars

\* ── Properties ───────────────────────────────────────────────────────
AdjacencyOf(infos) == [k \in 1..Len(infos) |-> infos[k].adjacentInfo]

\* every candidate findAdjacentPatches finds over every ring of oldGeometry
CandidatesFound == AdjacentCandidates(editedPatchId, oldGeometry, allPatches)

\* record r is candidate c, up to the indices that remapping and narrowing rewrite
SameAdjacency(r, c) ==
    /\ r.patchId = c.patchId
    /\ r.polygonIndex = c.polygonIndex /\ r.ringIndex = c.ringIndex
    /\ r.editedPolygonIndex = c.editedPolygonIndex
    /\ r.editedRingIndex = c.editedRingIndex
    /\ r.isReversed = c.isReversed
    /\ r.matchedVertexCount = c.matchedVertexCount

StrongestPerPatch(records, candidates) ==
    /\ \A i, j \in 1..Len(records) : i # j => records[i].patchId # records[j].patchId
    /\ \A i \in 1..Len(records) :
          (\E k \in 1..Len(candidates) : candidates[k].patchId = records[i].patchId)
          => /\ \E k \in 1..Len(candidates) : SameAdjacency(records[i], candidates[k])
             /\ \A k \in 1..Len(candidates) :
                   candidates[k].patchId = records[i].patchId
                   => candidates[k].matchedVertexCount <= records[i].matchedVertexCount

\* C1: after analysePostEdit, and after detectNeighbors, each neighbour patch
\* id has at most one adjacency record, and that record is the candidate with
\* the largest matchedVertexCount among all candidates found for that patch
\* over every ring of the edited geometry.
C1_StrongestAdjacencyPerPatch ==
    /\ op = "analysePostEdit"
       => LET found == CandidatesFound
          IN  StrongestPerPatch(AdjacencyOf(result.neighbours \o result.duplicates), found)
    /\ op = "detectNeighbors"
       => LET found == CandidatesFound
          IN  /\ StrongestPerPatch(result, found)
              /\ \A i \in 1..Len(result) : \E k \in 1..Len(found) : result[i] = found[k]

\* a weaker candidate of some patch was found BEFORE a stronger one of the
\* same patch, and the analysis reports the patch
C1_Witness ==
    /\ op = "analysePostEdit"
    /\ LET found == CandidatesFound
       IN  \E i, j \in 1..Len(found) :
              /\ i < j
              /\ found[i].patchId = found[j].patchId
              /\ found[i].matchedVertexCount < found[j].matchedVertexCount
              /\ \E n \in 1..Len(result.neighbours) :
                    result.neighbours[n].patchId = found[i].patchId

\* the patches (other than the edited one) that are duplicates of oldGeometry:
\* the overlap exceeds 95% of the smaller area
PreExistingDuplicateIds ==
    {allPatches[k].id : k \in {k \in 1..Len(allPatches) :
        /\ allPatches[k].id # editedPatchId
        /\ LET a == turfFeature(oldGeometry)
               b == turfFeature(allPatches[k].geometry)
           IN  /\ a # {} /\ b # {}
               /\ 100 * Cardinality(a \cap b)
                     > 95 * Min2(Cardinality(a), Cardinality(b))}}

UnchangedEditAnalysed ==
    /\ op = "analysePostEdit"
    /\ oldGeometry = newGeometry
    /\ args.preEditSimplifiedGeometry = NoGeom

\* C2 as stated: with oldGeom = newGeom and no preEditSimplifiedGeom the
\* analysis has neighbours = [], duplicates = the pre-existing duplicates
\* and gapGeometry = null.
C2_Original ==
    UnchangedEditAnalysed
    => /\ result.neighbours = << >>
       /\ IdsOf(result.duplicates) = PreExistingDuplicateIds
       /\ result.gapGeometry = NullFeature

\* C2 amended: with oldGeom = newGeom and no preEditSimplifiedGeom the
\* neighbours are exactly the non-duplicate patches that share a boundary
\* with oldGeom, each with the adjacency record detected on oldGeom (the
\* edited range is remapped onto itself, it does not collapse); duplicates =
\* the pre-existing duplicates; gapGeometry = null and gapAreaSqm = 0.
C2_UnchangedEditKeepsNeighbours ==
    UnchangedEditAnalysed
    => LET detected == detectNeighbors(editedPatchId, oldGeometry, allPatches)
       IN  /\ IdsOf(result.neighbours) = IdsOf(detected) \ PreExistingDuplicateIds
           /\ \A n \in 1..Len(result.neighbours) :
                 \E k \in 1..Len(detected) :
                    result.neighbours[n].adjacentInfo = detected[k]
           /\ IdsOf(result.duplicates) = PreExistingDuplicateIds
           /\ result.gapGeometry = NullFeature
           /\ result.gapAreaSqm = 0

C2_Witness ==
    /\ UnchangedEditAnalysed
    /\ result.neighbours # << >>
    /\ result.neighbours[1].adjacentInfo.editedStartIndex
          # result.neighbours[1].adjacentInfo.editedEndIndex

\* the old east side touches the west side of the only other patch and the
\* new east side lies west of it
RetractedFromNeighbour ==
    /\ op = "analysePostEdit"
    /\ Len(allPatches) = 2 /\ Len(oldGeometry) = 1 /\ Len(allPatches[2].geometry) = 1
    /\ allPatches[1].id = editedPatchId
    /\ getRingBBox(allPatches[2].geometry[1][1])[1] = getRingBBox(oldGeometry[1][1])[3]
    /\ getRingBBox(newGeometry[1][1])[3] < getRingBBox(oldGeometry[1][1])[3]
    /\ getRingBBox(allPatches[2].geometry[1][1])[4] = getRingBBox(oldGeometry[1][1])[4]
    /\ Len(CandidatesFound) = 1

\* C3: when the edited boundary is retracted away from an unchanged
\* neighbour, analysePostEdit returns exactly one neighbour, its relationship
\* is 'gap', and a non-null gap polygon is reported.
C3_RetractedNeighbourIsGap ==
    RetractedFromNeighbour
    => /\ Len(result.neighbours) = 1
       /\ result.neighbours[1].relationship = "gap"
       /\ result.gapGeometry # NullFeature

GeometryOfPatch(id) == allPatches[FindPatchIndex(allPatches, id)].geometry

OverlapSqm(geomA, geomB) ==
    CellAreaSqm * Cardinality(turfFeature(geomA) \cap turfFeature(geomB))

RECURSIVE Shoelace(_, _)
\* twice the signed area of a closed ring, summed from position i on
Shoelace(ring, i) ==
    IF i >= Len(ring) THEN 0
    ELSE ring[i][1] * ring[i + 1][2] - ring[i + 1][1] * ring[i][2] + Shoelace(ring, i + 1)

IsCounterClockwise(ring) == Shoelace(ring, 1) > 0

IsClockwise(ring) == Shoelace(ring, 1) < 0

\* the candidate ring an adjacency record points at
RingOfRecord(r) == GeometryOfPatch(r.patchId)[r.polygonIndex + 1][r.ringIndex + 1]

\* findAdjacentPatches was applied to a counter-clockwise edited ring and
\* record r of its result points at a clockwise ring
ClockwiseBesideCounterClockwise(r) ==
    /\ op = "findAdjacentPatches"
    /\ IsCounterClockwise(args.editedRing)
    /\ IsClockwise(RingOfRecord(r))

SwappedRoles(r) ==
    findAdjacentPatches(r.patchId, RingOfRecord(r), allPatches, r.polygonIndex, r.ringIndex)

\* the records of the swapped call that point back at the ring that was edited
BackTo(r) ==
    SelectSeq(SwappedRoles(r),
              LAMBDA q : /\ q.patchId = args.editedPatchId
                         /\ q.polygonIndex = args.editedPolygonIndex
                         /\ q.ringIndex = args.editedRingIndex)

\* the positions of the vertices of ringA that lie within tolerance of ringB
NearVertices(ringA, ringB) ==
    {ringA[i] : i \in {i \in 1..getOpenVertexCount(ringA) :
        pointToRingDistDegSqWithIndex(ringA[i], ringB, getOpenVertexCount(ringB)).distSq
            < GEOMETRIC_TOLERANCE_DEG_SQ}}

\* the positions of the vertices start..end of a ring
RangeVertices(ring, start, end) ==
    LET idx == RangeIndices(start, end, getOpenVertexCount(ring))
    IN  {At(ring, idx[k]) : k \in 1..Len(idx)}

\* both rings have the same vertices along the shared boundary
SameSharedVertices(r) ==
    NearVertices(args.editedRing, RingOfRecord(r))
        = RangeVertices(RingOfRecord(r), r.startIndex, r.endIndex)

C7_ExtractSegment ==
    op = "extractSegmentFromRing"
    => LET ring == args.ring
           n == getOpenVertexCount(ring)
           s == args.startIndex
           e == args.endIndex
       IN  (n >= 3 /\ s < n /\ e < n)
           => IF e >= s
              THEN /\ Len(result) = e - s + 1
                   /\ \A k \in 0..(e - s) : At(result, k) = At(ring, s + k)
              ELSE /\ Len(result) = (n - s) + e + 1
                   /\ \A k \in 0..(n - s - 1) : At(result, k) = At(ring, s + k)
                   /\ \A k \in 0..e : At(result, n - s + k) = At(ring, k)

\* a wrapped extraction on a closed ring
C7_Witness ==
    /\ op = "extractSegmentFromRing"
    /\ args.endIndex < args.startIndex
    /\ args.startIndex < getOpenVertexCount(args.ring)
    /\ Len(args.ring) = getOpenVertexCount(args.ring) + 1
    /\ Len(result) = getOpenVertexCount(args.ring) - args.startIndex + args.endIndex + 1

\* every polygon of geometry b other than polygon pi equals that of geometry a
SameElsewhere(a, b, pi) ==
    /\ Len(a) = Len(b)
    /\ \A q \in 1..Len(a) : q # pi + 1 => a[q] = b[q]

\* C8: syncBoundaryByDisplacement leaves unchanged every neighbour vertex
\* whose squared distance to the old edited ring exceeds the tolerance: it has
\* the same position in the output ring as in the input ring, and no vertex
\* is added or removed.
C8_FarVerticesStay ==
    op = "syncBoundaryByDisplacement"
    => LET inRing == RingAt(args.neighbourGeometry, args.polygonIndex, args.ringIndex)
           outRing == RingAt(result.geometry, args.polygonIndex, args.ringIndex)
           oldOpenCount == getOpenVertexCount(args.oldEditedRing)
       IN  /\ Len(outRing) = Len(inRing)
           /\ SameElsewhere(args.neighbourGeometry, result.geometry, args.polygonIndex)
           /\ \A i \in 1..Len(inRing) :
                 nearestPointOnRingProjected(inRing[i], args.oldEditedRing,
                                             oldOpenCount).distSq
                     > GEOMETRIC_TOLERANCE_DEG_SQ
                 => outRing[i] = inRing[i]

\* some vertices were displaced while a vertex beyond the tolerance, but
\* inside the padded bounding box of the old ring, stayed
C8_Witness ==
    /\ op = "syncBoundaryByDisplacement"
    /\ result.displacedCount > 0
    /\ LET inRing == RingAt(args.neighbourGeometry, args.polygonIndex, args.ringIndex)
           outRing == RingAt(result.geometry, args.polygonIndex, args.ringIndex)
           oldOpenCount == getOpenVertexCount(args.oldEditedRing)
           oldBBox == getRingBBox(args.oldEditedRing)
       IN  /\ outRing # inRing
           /\ \E i \in 1..Len(inRing) :
                 /\ nearestPointOnRingProjected(inRing[i], args.oldEditedRing,
                                                oldOpenCount).distSq
                        > GEOMETRIC_TOLERANCE_DEG_SQ
                 /\ inRing[i][1] <= oldBBox[3] + DisplacementPad
                 /\ inRing[i][2] <= oldBBox[4] + DisplacementPad
                 /\ inRing[i][1] >= oldBBox[1] - DisplacementPad
                 /\ inRing[i][2] >= oldBBox[2] - DisplacementPad
                 /\ outRing[i] = inRing[i]

\* the indices of the shared range of an adjacency record, as a set
SharedRange(info, n) ==
    LET idx == RangeIndices(info.startIndex, info.endIndex, n)
    IN  {idx[k] : k \in 1..Len(idx)}

\* C9: syncBoundaryByProjection preserves the neighbour's vertex count: the
\* output ring has as many positions as the input ring, only the positions at
\* the indices startIndex..endIndex (wrapping when endIndex < startIndex) are
\* moved, every other vertex keeps its position, and the last slot is a copy
\* of vertex 0.
C9_ProjectionKeepsVertexCount ==
    op = "syncBoundaryByProjection"
    => LET info == args.adjacentInfo
           inRing == RingAt(args.neighbourGeometry, info.polygonIndex, info.ringIndex)
           outRing == RingAt(result.geometry, info.polygonIndex, info.ringIndex)
           n == getOpenVertexCount(inRing)
       IN  /\ Len(outRing) = Len(inRing)
           /\ SameElsewhere(args.neighbourGeometry, result.geometry, info.polygonIndex)
           /\ \A i \in 0..(n - 1) :
                 i \notin SharedRange(info, n) => At(outRing, i) = At(inRing, i)
           /\ outRing[Len(outRing)] = outRing[1]

\* a wrapped range: vertex 0 is moved, a vertex outside the range exists
C9_Witness ==
    /\ op = "syncBoundaryByProjection"
    /\ LET info == args.adjacentInfo
           inRing == RingAt(args.neighbourGeometry, info.polygonIndex, info.ringIndex)
           outRing == RingAt(result.geometry, info.polygonIndex, info.ringIndex)
           n == getOpenVertexCount(inRing)
       IN  /\ info.endIndex < info.startIndex
           /\ outRing[1] # inRing[1]
           /\ outRing[Len(outRing)] = outRing[1]
           /\ \E i \in 0..(n - 1) : i \notin SharedRange(info, n)

\* what the displacement of proposal p's neighbour reports, given the old
\* edited geometry
DisplacementFor(p, old) ==
    syncBoundaryByDisplacement(p.originalGeometry,
        RingAt(old, p.adjacentInfo.editedPolygonIndex, p.adjacentInfo.editedRingIndex),
        RingAt(newGeometry, p.adjacentInfo.editedPolygonIndex,
               p.adjacentInfo.editedRingIndex),
        p.adjacentInfo.polygonIndex, p.adjacentInfo.ringIndex)

\* the projection of proposal p's neighbour onto the replacement segment
\* extracted from the edited ring
ProjectionFor(p) ==
    syncBoundaryByProjection(p.originalGeometry,
        extractSegmentFromRing(
            RingAt(newGeometry, p.adjacentInfo.editedPolygonIndex,
                   p.adjacentInfo.editedRingIndex),
            p.adjacentInfo.editedStartIndex, p.adjacentInfo.editedEndIndex),
        p.adjacentInfo)

\* C10: generateBoundaryProposals uses the displacement result for a
\* neighbour only when the old edited geometry is provided and displacement
\* reports displacedCount > 0; whenever displacedCount = 0 or the old geometry
\* is absent, the proposal is produced by projection onto the replacement
\* segment extracted from the edited ring.
C10_DisplacementOnlyWhenDisplaced ==
    op = "generateBoundaryProposals"
    => \A k \in 1..Len(result) :
          LET p == result[k]
              old == args.oldEditedGeometry
          IN  IF old # NoGeom /\ DisplacementFor(p, old).displacedCount > 0
              THEN /\ p.proposedGeometry = DisplacementFor(p, old).geometry
                   /\ p.changedSegment = DisplacementFor(p, old).changedSegment
                   /\ p.connectionPoints = DisplacementFor(p, old).connectionPoints
              ELSE /\ p.proposedGeometry = ProjectionFor(p).geometry
                   /\ p.connectionPoints = ProjectionFor(p).connectionPoints
                   /\ p.snapQuality = ProjectionFor(p).quality

\* the old geometry is given, nothing is displaced, and the proposal moves
\* the neighbour by projection
C10_Witness ==
    /\ op = "generateBoundaryProposals"
    /\ args.oldEditedGeometry # NoGeom
    /\ \E k \in 1..Len(result) :
          /\ DisplacementFor(result[k], args.oldEditedGeometry).displacedCount = 0
          /\ result[k].proposedGeometry # result[k].originalGeometry
          /\ result[k].proposedGeometry = ProjectionFor(result[k]).geometry

\* ── C11 ──────────────────────────────────────────────────────────────
\* the cells a patch has in common with the old geometry
CommonCells(patch) == turfFeature(oldGeometry) \cap turfFeature(patch.geometry)

\* more than 95% of the smaller of the two areas is common, none of the
\* two areas being 0
Above95OfSmaller(patch) ==
    /\ Cardinality(turfFeature(oldGeometry)) > 0
    /\ Cardinality(turfFeature(patch.geometry)) > 0
    /\ 100 * Cardinality(CommonCells(patch)) >
          95 * Min2(Cardinality(turfFeature(oldGeometry)),
                    Cardinality(turfFeature(patch.geometry)))

OccupiedCells ==
    UNION {turfFeature(allPatches[k].geometry) :
              k \in {k \in 1..Len(allPatches) : allPatches[k].id # editedPatchId}}

\* what the edit gave up, after subtraction of all occupied patches
LostAndUnoccupied ==
    (turfFeature(oldGeometry) \ turfFeature(newGeometry)) \ OccupiedCells

\* C12: analysePostEdit reports a gap only if its area, after subtraction
\* of every patch but the edited one, is at least 100 square metres;
\* otherwise gapGeometry is null and gapAreaSqm is 0
C12_GapAtLeast100Sqm ==
    op = "analysePostEdit" =>
        /\ result.gapGeometry # NullFeature =>
              /\ result.gapGeometry \subseteq LostAndUnoccupied
              /\ area(result.gapGeometry) >= 100
              /\ result.gapAreaSqm = area(result.gapGeometry)
        /\ area(LostAndUnoccupied) < 100 =>
              /\ result.gapGeometry = NullFeature
              /\ result.gapAreaSqm = 0
        /\ result.gapGeometry = NullFeature => result.gapAreaSqm = 0

\* an edit that gives up a little unoccupied area, less than 100 square
\* metres, and is analysed as having no gap
C12_Witness ==
    /\ op = "analysePostEdit"
    /\ LostAndUnoccupied # {}
    /\ area(LostAndUnoccupied) < 100
    /\ turfFeature(oldGeometry) \ turfFeature(newGeometry) # LostAndUnoccupied
    /\ result.gapGeometry = NullFeature
    /\ result.gapAreaSqm = 0

\* ── C13 ──────────────────────────────────────────────────────────────
\* the other patches on whose geometry the library does not fail
AcceptedOthers ==
    {k \in 1..Len(allPatches) :
        allPatches[k].id # editedPatchId /\ ~ Throws(allPatches[k].geometry)}

\* the lost area minus the patches whose subtraction did not fail, as the
\* residual polygons of at least 100 square metres; nothing when the
\* difference of old and new fails itself
GapWithoutFailed ==
    IF Throws(oldGeometry) \/ Throws(newGeometry) THEN NullFeature
    ELSE UNION {c \in PolygonsOf(
                    (turfFeature(oldGeometry) \ turfFeature(newGeometry))
                    \ UNION {turfFeature(allPatches[k].geometry) : k \in AcceptedOthers}) :
                  area(c) >= 100}

\* the duplicate test with a failing intersection counting as no overlap
DuplicateWithoutFailed(patch) ==
    /\ ~ Throws(oldGeometry)
    /\ ~ Throws(patch.geometry)
    /\ Above95OfSmaller(patch)

\* the relationship with a failing intersection counting as no overlap
RelationshipWithoutFailed(info) ==
    IF info.isDuplicate THEN "overlap"
    ELSE IF Throws(newGeometry) \/ Throws(GeometryOfPatch(info.patchId)) THEN "aligned"
    ELSE IF OverlapSqm(newGeometry, GeometryOfPatch(info.patchId)) > 100 THEN "overlap"
    ELSE "aligned"

\* C13: when intersect or difference fails for some patches, analysePostEdit
\* still returns a complete analysis: every patch found adjacent is listed,
\* and duplicates, relationships and the gap are those obtained when each
\* failing operation contributes nothing
C13_FailuresContributeNothing ==
    op = "analysePostEdit" =>
        /\ DOMAIN result = {"duplicates", "neighbours", "gapGeometry", "gapAreaSqm"}
        /\ IdsOf(CandidatesFound)
              \subseteq IdsOf(result.neighbours) \cup IdsOf(result.duplicates)
        /\ \A k \in 1..Len(allPatches) :
              allPatches[k].id # editedPatchId =>
                  ((allPatches[k].id \in IdsOf(result.duplicates))
                      <=> DuplicateWithoutFailed(allPatches[k]))
        /\ \A k \in 1..Len(result.neighbours) :
              result.neighbours[k].relationship
                  = RelationshipWithoutFailed(result.neighbours[k])
        /\ result.gapGeometry = GapWithoutFailed
        /\ result.gapAreaSqm = area(GapWithoutFailed)

\* an analysis in which the subtraction of one patch failed inside the lost
\* area (the gap reaches into that patch) while another patch was
\* subtracted from it
C13_Witness ==
    /\ op = "analysePostEdit"
    /\ result.gapGeometry # NullFeature
    /\ \E k \in 1..Len(allPatches) :
          /\ Throws(allPatches[k].geometry)
          /\ result.gapGeometry \cap turfFeature(allPatches[k].geometry) # {}
    /\ \E k \in AcceptedOthers :
          (turfFeature(oldGeometry) \ turfFeature(newGeometry))
              \cap turfFeature(allPatches[k].geometry) # {}

\* ── C14 ──────────────────────────────────────────────────────────────
FewerThan3(ring) == getOpenVertexCount(ring) < 3

\* the neighbour ring a sync function was asked to change
RingToSync ==
    IF op = "syncBoundaryByDisplacement"
    THEN RingAt(args.neighbourGeometry, args.polygonIndex, args.ringIndex)
    ELSE RingAt(args.neighbourGeometry, args.adjacentInfo.polygonIndex,
                args.adjacentInfo.ringIndex)

\* C14: a ring with fewer than 3 open vertices is ignored: as edited ring
\* findAdjacentPatches finds nothing for it, as candidate ring it is in no
\* adjacency record, extractSegmentFromRing returns an empty segment for
\* it, and each sync function returns the neighbour geometry unchanged
C14_ShortRingsIgnored ==
    /\ op = "findAdjacentPatches" =>
          /\ FewerThan3(args.editedRing) => result = << >>
          /\ \A k \in 1..Len(result) : ~ FewerThan3(RingOfRecord(result[k]))
    /\ op = "extractSegmentFromRing" =>
          (FewerThan3(args.ring) => result = << >>)
    /\ op = "syncAdjacentBoundary" =>
          (FewerThan3(RingToSync) => result = args.neighbourGeometry)
    /\ op \in {"syncBoundaryByProjection", "syncBoundaryByDisplacement"} =>
          (FewerThan3(RingToSync) =>
              /\ result.geometry = args.neighbourGeometry
              /\ result.changedSegment = << >>)

\* syncAdjacentBoundary asked to replace both vertices of a two-vertex ring
\* by a segment of at least three positions
C14_Witness ==
    /\ op = "syncAdjacentBoundary"
    /\ FewerThan3(RingToSync)
    /\ getOpenVertexCount(RingToSync) = 2
    /\ args.adjacentInfo.startIndex = 0
    /\ args.adjacentInfo.endIndex = 1
    /\ Len(args.newSegmentPositions) >= 3
    /\ result = args.neighbourGeometry

\* the vertices of a ring outside startIndex..endIndex, in the ring's cyclic
\* order, from the one after endIndex
KeptVertices(ring, startIndex, endIndex) ==
    LET n == getOpenVertexCount(ring)
        replaced == IF endIndex >= startIndex THEN endIndex - startIndex + 1
                    ELSE (n - startIndex) + endIndex + 1
    IN  [k \in 1..(n - replaced) |-> At(ring, (endIndex + k) % n)]

\* the sequences that read s cyclically from any of its elements
Rotations(s) ==
    {[k \in 1..Len(s) |-> s[((k - 1 + r) % Len(s)) + 1]] : r \in 0..(Len(s) - 1)}

\* the ring the splice just applied worked on
RingSpliced == args.neighbourGeometry[1][1]

\* the replacement as it goes into the ring, followed by the kept vertices
ExpectedSplice ==
    (IF args.adjacentInfo.isReversed THEN Reverse(args.newSegmentPositions)
     ELSE args.newSegmentPositions)
    \o KeptVertices(RingSpliced, args.adjacentInfo.startIndex, args.adjacentInfo.endIndex)

IndicesInRange ==
    /\ args.adjacentInfo.startIndex \in 0..(getOpenVertexCount(RingSpliced) - 1)
    /\ args.adjacentInfo.endIndex \in 0..(getOpenVertexCount(RingSpliced) - 1)

\* the ring is closed and reads, cyclically, as the sequence expected
ClosedRingOf(ring, expected) ==
    /\ ring[1] = ring[Len(ring)]
    /\ \E r \in Rotations(expected) : ring = r \/ ring = Append(r, r[1])

FoundOnNewGeometry == IdsOf(AdjacentCandidates(editedPatchId, newGeometry, allPatches))

\* C20: every patch for which findAdjacentPatches finds a shared segment
\* with some ring of the old geometry is in neighbours or duplicates of
\* the analysis, whatever the new geometry is
C20_NeighboursDetectedOnOldGeometry ==
    op = "analysePostEdit" =>
        IdsOf(CandidatesFound) \subseteq IdsOf(result.neighbours) \cup IdsOf(result.duplicates)

\* the edit moved the ring away from a patch that shared a segment with the
\* old ring: nothing is found for that patch on the new geometry
C20_Witness ==
    /\ op = "analysePostEdit"
    /\ newGeometry # oldGeometry
    /\ \E id \in IdsOf(CandidatesFound) :
          /\ id \notin FoundOnNewGeometry
          /\ id \in IdsOf(result.neighbours)

\* the ring a synchronisation result has for the ring it worked on
SyncedRing(polygonIndex, ringIndex) == result.geometry[polygonIndex + 1][ringIndex + 1]

\* the positions (1-based) at which that ring differs from the input ring
ChangedPositions(polygonIndex, ringIndex) ==
    {i \in 1..getOpenVertexCount(SyncedRing(polygonIndex, ringIndex)) :
        SyncedRing(polygonIndex, ringIndex)[i]
            # args.neighbourGeometry[polygonIndex + 1][ringIndex + 1][i]}

\* the first position of the changed stretch, read cyclically on a ring of
\* n open vertices: the changed position after an unchanged one
RunStart(S, n) ==
    IF \E i \in S : (((i - 2 + n) % n) + 1) \notin S
    THEN CHOOSE i \in S : (((i - 2 + n) % n) + 1) \notin S
    ELSE CHOOSE i \in S : \A j \in S : i <= j

\* its last position: the changed position before an unchanged one
RunEnd(S, n) ==
    IF \E i \in S : ((i % n) + 1) \notin S
    THEN CHOOSE i \in S : ((i % n) + 1) \notin S
    ELSE CHOOSE i \in S : \A j \in S : i >= j

\* the two ends of the stretch a displacement changed
DisplacedStart ==
    RunStart(ChangedPositions(args.polygonIndex, args.ringIndex),
             getOpenVertexCount(SyncedRing(args.polygonIndex, args.ringIndex)))

DisplacedEnd ==
    RunEnd(ChangedPositions(args.polygonIndex, args.ringIndex),
           getOpenVertexCount(SyncedRing(args.polygonIndex, args.ringIndex)))

\* angle and distance at the two ends of the changed stretch first..last
\* (1-based) of a ring, each with its neighbour on the unedited side
QualityAtEnds(ring, first, last) ==
    assessConnectionQuality(
        At(ring, (first - 2 + getOpenVertexCount(ring)) % getOpenVertexCount(ring)),
        ring[first], ring[last],
        At(ring, last % getOpenVertexCount(ring)))

\* C18: for displacement and for projection, the quality of a result that
\* changed the ring is 'poor' when at one of the two splice endpoints the
\* connection angle is below 30 degrees or the neighbour vertex on the
\* unedited side is more than 5 m from the endpoint, and 'good' otherwise
C18_QualityFromAngleAndDistance ==
    /\ (op = "syncBoundaryByProjection" /\ result.changedSegment # << >>) =>
            result.quality
                = QualityAtEnds(SyncedRing(args.adjacentInfo.polygonIndex,
                                           args.adjacentInfo.ringIndex),
                                args.adjacentInfo.startIndex + 1,
                                args.adjacentInfo.endIndex + 1)
    /\ (op = "syncBoundaryByDisplacement" /\ result.displacedCount > 0) =>
            result.quality
                = QualityAtEnds(SyncedRing(args.polygonIndex, args.ringIndex),
                                DisplacedStart, DisplacedEnd)

\* the projection half of C18
ProjectionQualityFromAngleAndDistance ==
    (op = "syncBoundaryByProjection" /\ result.changedSegment # << >>) =>
        result.quality
            = QualityAtEnds(SyncedRing(args.adjacentInfo.polygonIndex,
                                       args.adjacentInfo.ringIndex),
                            args.adjacentInfo.startIndex + 1,
                            args.adjacentInfo.endIndex + 1)

\* the original patches that are not deleted, in their order
OriginalsKept ==
    SelectSeqBy(allPatches,
        {allPatches[k] : k \in {k \in 1..Len(allPatches) :
                                   allPatches[k].id \notin deletedPatchIds}})

\* each of them once, with the modified geometry recorded for its id if
\* there is one
OriginalsAsModified ==
    [k \in 1..Len(OriginalsKept) |->
        [ id |-> OriginalsKept[k].id,
          code |-> OriginalsKept[k].code,
          geometry |-> IF modifiedGeometries[OriginalsKept[k].id] # NoGeom
                       THEN modifiedGeometries[OriginalsKept[k].id]
                       ELSE OriginalsKept[k].geometry ]]

\* the new patches that are not deleted, in their order
NewPatchesKept ==
    SelectSeqBy(newPatches,
        {newPatches[k] : k \in {k \in 1..Len(newPatches) :
                                   newPatches[k].id \notin deletedPatchIds}})

\* C15 as stated: the working feature set is the originals that are not
\* deleted, each once with its modified geometry if one was recorded,
\* followed by every new patch.
C15_Original == workingFeatureCollection = OriginalsAsModified \o newPatches

\* C15: the working feature set is the originals that are not deleted,
\* each once with its modified geometry if one was recorded, followed by the
\* new patches that are not deleted
C15_WorkingSetIsDerivedView == workingFeatureCollection = OriginalsAsModified \o NewPatchesKept

\* a new patch was deleted, an original has a modified geometry and an
\* original was deleted
C15_Witness ==
    /\ NewPatchesKept # newPatches
    /\ \E k \in 1..Len(OriginalsKept) : modifiedGeometries[OriginalsKept[k].id] # NoGeom
    /\ OriginalsKept # allPatches

\* the step is the end of a handleSave whose requests all succeeded and
\* that had this id among the dirty ids it saved
CommittedBySave(id) ==
    /\ op' = "handleSaveSettled"
    /\ result'.outcome = "saved"
    /\ id \in result'.dirtyIds

\* C16: a dirty id stays dirty through every step (selection, mode
\* change, modification, deletion, failed save) and leaves the dirty set
\* only on commit, the clearDirty at the end of a save whose requests all
\* succeeded
C16_DirtyUntilCommit ==
    [][\A id \in dirtyPatchIds : id \notin dirtyPatchIds' => CommittedBySave(id)]_vars

\* the part of C16 about the other handlers: only the end of a handleSave
\* that did not throw removes ids from the dirty set
DirtyKeptByOtherHandlers ==
    [][dirtyPatchIds \subseteq dirtyPatchIds'
       \/ (op' = "handleSaveSettled" /\ result'.outcome # "failed")]_vars

\* the step is an applyBoundaryEdit
EditApplying == op' = "applyBoundaryEdit"

\* the proposals of the edit for this patch that have this quality
ProposalsFor(id, quality) ==
    {k \in 1..Len(result'.proposals) :
        /\ result'.proposals[k].patchId = id
        /\ result'.proposals[k].snapQuality = quality}

\* C17: in an applyBoundaryEdit step the recorded geometry of a patch
\* other than the edited one changes only if the patch is in the linked set
\* chosen before the edit and has a proposal of quality good, whose proposed
\* geometry it then gets; a linked patch with a poor proposal keeps its
\* geometry and its proposal is put aside for review, with the post-edit
\* dialog shown; a patch that is not linked keeps its geometry
C17_AutoApplyOnlyLinkedAndGood ==
    [][EditApplying =>
        \A id \in SessionIds \ {args'.patchId} :
            /\ modifiedGeometries'[id] # modifiedGeometries[id] =>
                  /\ id \in linkedPatchIds
                  /\ \E k \in ProposalsFor(id, "good") :
                        modifiedGeometries'[id] = result'.proposals[k].proposedGeometry
            /\ (id \in linkedPatchIds /\ ProposalsFor(id, "good") # {}) =>
                  /\ id \in dirtyPatchIds'
                  /\ \E k \in ProposalsFor(id, "good") :
                        modifiedGeometries'[id] = result'.proposals[k].proposedGeometry
            /\ (id \in linkedPatchIds /\ ProposalsFor(id, "poor") # {}) =>
                  /\ modifiedGeometries'[id] = modifiedGeometries[id]
                  /\ \A k \in ProposalsFor(id, "poor") :
                        \E j \in 1..Len(result'.poorQualityLinked) :
                            result'.poorQualityLinked[j] = result'.proposals[k]
                  /\ result'.showPostEditDialog
            /\ id \notin linkedPatchIds =>
                  modifiedGeometries'[id] = modifiedGeometries[id]]_vars

\* an edit was applied with one linked neighbour updated from its good
\* proposal and another linked neighbour, whose proposal is poor, put aside
\* with no geometry recorded for it
C17_Witness ==
    /\ op = "applyBoundaryEdit"
    /\ result.autoApplied # << >>
    /\ result.poorQualityLinked # << >>
    /\ \A k \in 1..Len(result.poorQualityLinked) :
          modifiedGeometries[result.poorQualityLinked[k].patchId] = NoGeom

\* ── C21 ──────────────────────────────────────────────────────────────
\* the indices of the neighbour ring that record r names, in walk order
SharedRun(r) ==
    RangeIndices(r.startIndex, r.endIndex, getOpenVertexCount(RingOfRecord(r)))

\* the index in the middle of the shared run
RunMiddle(r) == SharedRun(r)[(Len(SharedRun(r)) + 1) \div 2]

\* the step the neighbour ring takes from the middle of the shared run
NeighbourDirection(r) ==
    << RingOfRecord(r)[RunMiddle(r) + 2][1] - RingOfRecord(r)[RunMiddle(r) + 1][1],
       RingOfRecord(r)[RunMiddle(r) + 2][2] - RingOfRecord(r)[RunMiddle(r) + 1][2] >>

\* the edge of the edited ring beside the middle of the shared run
EdgeBeside(r) ==
    pointToRingDistDegSqWithIndex(RingOfRecord(r)[RunMiddle(r) + 1], args.editedRing,
                                  getOpenVertexCount(args.editedRing)).segIndex

\* the step the edited ring takes along that edge
EditedDirection(r) ==
    << args.editedRing[EdgeBeside(r) + 2][1] - args.editedRing[EdgeBeside(r) + 1][1],
       args.editedRing[EdgeBeside(r) + 2][2] - args.editedRing[EdgeBeside(r) + 1][2] >>

\* the scalar product of the two steps: negative when the rings walk the
\* shared boundary in opposite directions, positive when in the same
WalkProduct(r) ==
    EditedDirection(r)[1] * NeighbourDirection(r)[1]
        + EditedDirection(r)[2] * NeighbourDirection(r)[2]

\* the edges of the edited ring that the vertices of the shared run project on
EdgesProjectedOn(r) ==
    {pointToRingDistDegSqWithIndex(RingOfRecord(r)[SharedRun(r)[k] + 1], args.editedRing,
                                   getOpenVertexCount(args.editedRing)).segIndex :
        k \in 1..Len(SharedRun(r))}

\* C21: for two rings sharing a boundary of at least 3 neighbour vertices,
\* findAdjacentPatches reports isReversed = true when the neighbour ring
\* walks the shared boundary opposite to the edited ring and false when it
\* walks it in the same direction, whatever the vertex density of the
\* edited ring there (a single edge included).
C21_ReversedIffOppositeWalk ==
    op = "findAdjacentPatches"
    => \A i \in 1..Len(result) :
          /\ WalkProduct(result[i]) < 0 => result[i].isReversed
          /\ WalkProduct(result[i]) > 0 => ~ result[i].isReversed

\* the direction is reported right whenever the shared run projects on
\* more than one edge of the edited ring
ReversedIffOppositeOnSeveralEdges ==
    op = "findAdjacentPatches"
    => \A i \in 1..Len(result) :
          Cardinality(EdgesProjectedOn(result[i])) > 1
          => /\ WalkProduct(result[i]) < 0 => result[i].isReversed
             /\ WalkProduct(result[i]) > 0 => ~ result[i].isReversed

\* ── C22 ──────────────────────────────────────────────────────────────
\* the candidates after the remap step, before narrowing
RemappedCandidates == RemapAll(CandidatesFound, oldGeometry, newGeometry)

\* the candidates among remapped that record info was made of
RemappedAmong(info, remapped) ==
    {remapped[k] : k \in {k \in 1..Len(remapped) :
        /\ remapped[k].patchId = info.patchId
        /\ remapped[k].polygonIndex = info.polygonIndex
        /\ remapped[k].ringIndex = info.ringIndex
        /\ remapped[k].editedPolygonIndex = info.editedPolygonIndex
        /\ remapped[k].editedRingIndex = info.editedRingIndex}}

RemappedOf(info) == RemappedAmong(info, RemappedCandidates)

\* the ring of the edited patch that record info lies on, after and before
\* the user's edit
PostEditRingOf(info) == RingAt(newGeometry, info.editedPolygonIndex, info.editedRingIndex)

PreEditRingOf(info) ==
    RingAt(args.preEditSimplifiedGeometry, info.editedPolygonIndex, info.editedRingIndex)

\* the range of the vertices that the user moved, NoRange when none
ChangedRange(info) ==
    findEditedVertexRange(PreEditRingOf(info), getOpenVertexCount(PreEditRingOf(info)),
                          PostEditRingOf(info), getOpenVertexCount(PostEditRingOf(info)))

\* narrowing applies to a candidate: both rings exist with 3 open vertices
\* or more and some vertex was moved
NarrowingApplies(info) ==
    /\ args.preEditSimplifiedGeometry # NoGeom
    /\ PreEditRingOf(info) # NoRing /\ PostEditRingOf(info) # NoRing
    /\ getOpenVertexCount(PreEditRingOf(info)) >= 3
    /\ getOpenVertexCount(PostEditRingOf(info)) >= 3
    /\ ChangedRange(info) # NoRange

\* the indices of the edited range start..end as the consumers of the
\* record read it: wrapped through the ring start when start > end
EditedRangeOf(c, openCount) ==
    {RangeIndices(c.editedStartIndex, c.editedEndIndex, openCount)[k] :
        k \in 1..Len(RangeIndices(c.editedStartIndex, c.editedEndIndex, openCount))}

\* the indices between the two ends of the edited range, whichever is first
BetweenEnds(c) ==
    Min2(c.editedStartIndex, c.editedEndIndex)..Max2(c.editedStartIndex, c.editedEndIndex)

\* the changed range padded by EDIT_BUFFER vertices on each side
PaddedRange(range) == (range.start - EDIT_BUFFER)..(range.end + EDIT_BUFFER)

\* narrowing succeeded for candidate c, giving record info
NarrowedFrom(info, c) ==
    /\ NarrowingApplies(info)
    /\ BetweenEnds(c) \cap PaddedRange(ChangedRange(info)) # {}

\* C22: when narrowing succeeds for a candidate, every index of the narrowed
\* range editedStartIndex..editedEndIndex belongs to the candidate's shared
\* range before narrowing (wrapped when its start > end) and lies within 3
\* vertices of the changed range.
C22_NarrowedInsideSharedRange ==
    op = "analysePostEdit"
    => \A n \in 1..Len(result.neighbours) :
          \A c \in RemappedOf(result.neighbours[n].adjacentInfo) :
             NarrowedFrom(result.neighbours[n].adjacentInfo, c)
             => EditedRangeOf(result.neighbours[n].adjacentInfo,
                              getOpenVertexCount(PostEditRingOf(c)))
                   \subseteq (EditedRangeOf(c, getOpenVertexCount(PostEditRingOf(c)))
                                \cap PaddedRange(ChangedRange(c)))

\* what the code computes: the indices between the two ends of the
\* candidate's range, in either order, that lie in the padded changed range
NarrowedBetweenEnds ==
    op = "analysePostEdit"
    => \A n \in 1..Len(result.neighbours) :
          \A c \in RemappedOf(result.neighbours[n].adjacentInfo) :
             NarrowedFrom(result.neighbours[n].adjacentInfo, c)
             => EditedRangeOf(result.neighbours[n].adjacentInfo,
                              getOpenVertexCount(PostEditRingOf(c)))
                   = (BetweenEnds(c) \cap PaddedRange(ChangedRange(c)))

\* the indices of the vertices of the old ring of candidate c that lie
\* within tolerance of the neighbour ring it points at
SharedOnOldRing(c) ==
    {i \in 0..(getOpenVertexCount(RingAt(oldGeometry, c.editedPolygonIndex, c.editedRingIndex)) - 1) :
        pointToRingDistDegSqWithIndex(
            At(RingAt(oldGeometry, c.editedPolygonIndex, c.editedRingIndex), i),
            RingOfRecord(c), getOpenVertexCount(RingOfRecord(c))).distSq
          < GEOMETRIC_TOLERANCE_DEG_SQ}

\* the edit keeps the vertex count and moves no vertex next to another
\* one, so that a vertex keeps its index through the remap step
IndicesKept(c) ==
    /\ Len(PostEditRingOf(c)) = Len(RingAt(oldGeometry, c.editedPolygonIndex, c.editedRingIndex))
    /\ \A i \in 0..(getOpenVertexCount(PostEditRingOf(c)) - 1) :
          findNearestVertexIndex(
              At(RingAt(oldGeometry, c.editedPolygonIndex, c.editedRingIndex), i),
              PostEditRingOf(c), getOpenVertexCount(PostEditRingOf(c))) = i

\* the narrowed range holds only vertices that were on the shared boundary
NarrowedOnSharedVertices ==
    op = "analysePostEdit"
    => \A n \in 1..Len(result.neighbours) :
          \A c \in RemappedOf(result.neighbours[n].adjacentInfo) :
             (NarrowedFrom(result.neighbours[n].adjacentInfo, c) /\ IndicesKept(c))
             => EditedRangeOf(result.neighbours[n].adjacentInfo,
                              getOpenVertexCount(PostEditRingOf(c)))
                   \subseteq SharedOnOldRing(c)

\* ── C23 ──────────────────────────────────────────────────────────────
\* the candidates after the narrowing step
NarrowedCandidates ==
    NarrowAll(RemappedCandidates, newGeometry, allPatches, args.preEditSimplifiedGeometry)

\* a ring of candidate c is missing or has fewer than 3 open vertices
RingMissingOrShort(c) ==
    \/ PreEditRingOf(c) = NoRing
    \/ PostEditRingOf(c) = NoRing
    \/ getOpenVertexCount(PreEditRingOf(c)) < 3
    \/ getOpenVertexCount(PostEditRingOf(c)) < 3

\* no vertex of the ring of candidate c was moved
NothingChanged(c) == ~ RingMissingOrShort(c) /\ ChangedRange(c) = NoRange

\* the padded changed range misses the range of candidate c
MissesEditZone(c) ==
    /\ ~ RingMissingOrShort(c)
    /\ ChangedRange(c) # NoRange
    /\ BetweenEnds(c) \cap PaddedRange(ChangedRange(c)) = {}

\* narrowing cannot be applied to candidate c
CannotNarrow(c) == RingMissingOrShort(c) \/ NothingChanged(c) \/ MissesEditZone(c)

\* every candidate that cannot be narrowed is the same before and after
KeptWhereNotNarrowed(remapped, narrowed) ==
    /\ Len(narrowed) = Len(remapped)
    /\ \A k \in 1..Len(remapped) : CannotNarrow(remapped[k]) => narrowed[k] = remapped[k]

SomeCandidate(remapped, case(_)) == \E k \in 1..Len(remapped) : case(remapped[k])

NothingChangedAnalysed ==
    /\ op = "analysePostEdit" /\ args.preEditSimplifiedGeometry # NoGeom
    /\ SomeCandidate(RemappedCandidates, NothingChanged)

RingMissingAnalysed ==
    /\ op = "analysePostEdit" /\ args.preEditSimplifiedGeometry # NoGeom
    /\ \E k \in 1..Len(RemappedCandidates) : PreEditRingOf(RemappedCandidates[k]) = NoRing

RingShortAnalysed ==
    /\ op = "analysePostEdit" /\ args.preEditSimplifiedGeometry # NoGeom
    /\ \E k \in 1..Len(RemappedCandidates) :
          /\ PreEditRingOf(RemappedCandidates[k]) # NoRing
          /\ getOpenVertexCount(PreEditRingOf(RemappedCandidates[k])) < 3

\* ── C24 ──────────────────────────────────────────────────────────────
\* the indices of the vertices of ringB within tolerance of the edited ring
MarkedIndices(ringB) ==
    {i \in 0..(getOpenVertexCount(ringB) - 1) :
        pointToRingDistDegSqWithIndex(At(ringB, i), args.editedRing,
                                      getOpenVertexCount(args.editedRing)).distSq
          < GEOMETRIC_TOLERANCE_DEG_SQ}

\* the first index of the marked run that ends at the last index n - 1
WrapStart(marked, n) ==
    CHOOSE s \in 0..(n - 1) : s..(n - 1) \subseteq marked /\ (s - 1) \notin marked

\* the last index of the marked run that starts at index 0
WrapEnd(marked, n) ==
    CHOOSE e \in 0..(n - 1) : 0..e \subseteq marked /\ (e + 1) \notin marked

\* the marked vertices form a run through the wrap-around ..., n - 1, 0, ...
RunsThroughWrap(marked, n) == 0 \in marked /\ (n - 1) \in marked

\* the records of the result on ring ri of polygon pi of a patch
RecordsOnRing(records, patchId, pi, ri) ==
    {records[k] : k \in {k \in 1..Len(records) :
        /\ records[k].patchId = patchId
        /\ records[k].polygonIndex = pi
        /\ records[k].ringIndex = ri}}

\* the wrapped run from s to e of ringB is long enough and its end points
\* have different nearest vertices on the edited ring
WrappedRunReported(ringB, s, e) ==
    /\ (getOpenVertexCount(ringB) - s) + (e + 1) >= MIN_SHARED_VERTICES
    /\ findNearestVertexIndex(At(ringB, s), args.editedRing,
                              getOpenVertexCount(args.editedRing))
          # findNearestVertexIndex(At(ringB, e), args.editedRing,
                                   getOpenVertexCount(args.editedRing))

\* the run through the wrap-around is reported as the one segment s..e with
\* s > e that counts both sides, and not as two segments
OneWrappedSegment(onRing, ringB, n, s, e) ==
    /\ \A r \in onRing :
          (r.startIndex = 0 \/ r.endIndex = n - 1 \/ r.startIndex > r.endIndex)
          => /\ r.startIndex = s /\ r.endIndex = e
             /\ r.startIndex > r.endIndex
             /\ r.matchedVertexCount = (n - s) + (e + 1)
    /\ WrappedRunReported(ringB, s, e)
          => \E r \in onRing : r.startIndex = s /\ r.endIndex = e

\* every vertex of the ring is marked: the one segment 0..n - 1
WholeRingSegment(onRing, n) ==
    \A r \in onRing : r.startIndex = 0 /\ r.endIndex = n - 1 /\ r.matchedVertexCount = n

\* a record with startIndex > endIndex on a ring whose marked vertices do
\* not run through the wrap-around
WrappedWithoutRun(onRing, marked, n) ==
    \E r \in onRing : r.startIndex > r.endIndex /\ ~ RunsThroughWrap(marked, n)

\* the statement of C24 on one candidate ring, as stated
WrapOnRingAsStated(onRing, ringB, marked, n) ==
    /\ ~ WrappedWithoutRun(onRing, marked, n)
    /\ RunsThroughWrap(marked, n)
          => OneWrappedSegment(onRing, ringB, n,
                               IF marked = 0..(n - 1) THEN 0 ELSE WrapStart(marked, n),
                               IF marked = 0..(n - 1) THEN n - 1 ELSE WrapEnd(marked, n))

\* the statement of C24 on one candidate ring, amended
WrapOnRing(onRing, ringB, marked, n) ==
    /\ ~ WrappedWithoutRun(onRing, marked, n)
    /\ (RunsThroughWrap(marked, n) /\ marked # 0..(n - 1))
          => OneWrappedSegment(onRing, ringB, n, WrapStart(marked, n), WrapEnd(marked, n))
    /\ marked = 0..(n - 1) => WholeRingSegment(onRing, n)

\* the candidate rings of a call: every ring of every other patch, as
\* << patch id, polygon index, ring index, ring >>
CandidateRings ==
    UNION {UNION {{<< allPatches[k].id, pi, ri, allPatches[k].geometry[pi + 1][ri + 1] >> :
                      ri \in 0..(Len(allPatches[k].geometry[pi + 1]) - 1)} :
                  pi \in 0..(Len(allPatches[k].geometry) - 1)} :
           k \in {k \in 1..Len(allPatches) : allPatches[k].id # args.editedPatchId}}

\* C24 as stated: when the marked vertices of the neighbour ring form a run
\* through its index wrap-around, the run is reported as one segment with
\* startIndex > endIndex instead of two, matchedVertexCount counts the
\* vertices on both sides of the wrap, and a reported startIndex > endIndex
\* always denotes such a run.
C24_Original ==
    op = "findAdjacentPatches"
    => \A c \in CandidateRings :
          (getOpenVertexCount(args.editedRing) >= 3 /\ getOpenVertexCount(c[4]) >= 3)
          => WrapOnRingAsStated(RecordsOnRing(result, c[1], c[2], c[3]), c[4],
                                MarkedIndices(c[4]), getOpenVertexCount(c[4]))

\* C24 amended: when the marked vertices of the neighbour ring form a run
\* through its index wrap-around and some vertex of the ring is not marked,
\* the run is reported as one segment with startIndex > endIndex instead of
\* two, and matchedVertexCount counts the vertices on both sides of the
\* wrap; when every vertex is marked the ring is reported as the segment
\* 0..n - 1 with matchedVertexCount n; a reported startIndex > endIndex
\* always denotes a run through the wrap-around.
C24_WrappedRunIsOneSegment ==
    op = "findAdjacentPatches"
    => \A c \in CandidateRings :
          (getOpenVertexCount(args.editedRing) >= 3 /\ getOpenVertexCount(c[4]) >= 3)
          => WrapOnRing(RecordsOnRing(result, c[1], c[2], c[3]), c[4],
                        MarkedIndices(c[4]), getOpenVertexCount(c[4]))

\* a neighbour whose shared side runs through its ring start, reported as
\* one segment that counts the vertices on both sides
C24_Witness ==
    /\ op = "findAdjacentPatches"
    /\ \E k \in 1..Len(result) :
          /\ result[k].startIndex > result[k].endIndex
          /\ result[k].endIndex >= 1
          /\ result[k].startIndex < getOpenVertexCount(RingOfRecord(result[k])) - 1
          /\ result[k].matchedVertexCount
                = (getOpenVertexCount(RingOfRecord(result[k])) - result[k].startIndex)
                    + result[k].endIndex + 1
          /\ \A j \in 1..Len(result) : j # k => result[j].patchId # result[k].patchId

\* ── C25 ──────────────────────────────────────────────────────────────
\* every record is of another patch, counts 3 shared vertices or more, has
\* two different ends on the edited ring and carries the given indices
RecordsWellFormed(records, patchId, pi, ri) ==
    \A k \in 1..Len(records) :
       /\ records[k].matchedVertexCount >= 3
       /\ records[k].editedStartIndex # records[k].editedEndIndex
       /\ records[k].patchId # patchId
       /\ records[k].editedPolygonIndex = pi
       /\ records[k].editedRingIndex = ri

\* C25: every adjacency record returned by findAdjacentPatches has
\* matchedVertexCount >= 3 and editedStartIndex # editedEndIndex, belongs
\* to a patch other than the edited one, and carries the editedPolygonIndex
\* and editedRingIndex passed by the caller.
C25_RecordsWellFormed ==
    op = "findAdjacentPatches"
    => RecordsWellFormed(result, args.editedPatchId, args.editedPolygonIndex,
                         args.editedRingIndex)

\* a call that returns a record, while a ring with one or two vertices
\* near the edited ring gives none
C25_Witness ==
    /\ op = "findAdjacentPatches"
    /\ result # << >>
    /\ \E c \in CandidateRings :
          /\ getOpenVertexCount(c[4]) >= 3
          /\ Cardinality(MarkedIndices(c[4])) \in {1, 2}
          /\ RecordsOnRing(result, c[1], c[2], c[3]) = {}

\* a ring with 3 marked vertices or more whose run ends have the same
\* nearest vertex on the edited ring gives no record
DegenerateDropped ==
    /\ op = "findAdjacentPatches"
    /\ getOpenVertexCount(args.editedRing) >= 3
    /\ \E c \in CandidateRings :
          /\ getOpenVertexCount(c[4]) >= 3
          /\ Cardinality(MarkedIndices(c[4])) >= 3
          /\ RecordsOnRing(result, c[1], c[2], c[3]) = {}

\* a call for the second polygon of a patch that returns a record
SecondPolygonRecorded ==
    /\ op = "findAdjacentPatches"
    /\ args.editedPolygonIndex = 1
    /\ result # << >>
\* ── C26 ──────────────────────────────────────────────────────────────
\* the geometry the working feature of this id carries
WorkingGeometryOf(features, id) == features[FindPatchIndex(features, id)].geometry

\* the ids updateGeometry was called for and that the working set holds
UpdatedWorkingIds(features, modified) == {id \in IdsOfPatches(features) : modified[id] # NoGeom}

\* every id updateGeometry was called for shows the geometry it was given
UpdateShown(features, modified) == \A id \in UpdatedWorkingIds(features, modified) : WorkingGeometryOf(features, id) = modified[id]

\* the row of this id holds this geometry
RowHolds(rows, id, geometry) == \E k \in 1..Len(rows) : rows[k].id = id /\ rows[k].geometry = geometry

\* the ids of the save in flight that updateGeometry was called for and that are still worked on
UpdatedIdsSaved == {id \in saving.dirtyIds \cap IdsOfPatches(workingFeatureCollection) : saving.modifiedGeometries[id] # NoGeom}

\* a save ran to its end with every request answered
SaveSucceeds == saving.active /\ ~ saving'.active /\ result'.outcome = "saved"

\* the save persisted, for every such id, the geometry updateGeometry was given
UpdatePersisted == \A id \in UpdatedIdsSaved : RowHolds(database', id, saving.modifiedGeometries[id])

UpdateShownThenPersisted == UpdateShown(workingFeatureCollection, modifiedGeometries)' /\ (SaveSucceeds => UpdatePersisted)

\* C26: after updateGeometry(id, g) for an id of the working feature set, an
\* original patch or one added with addNewPatch, the working feature of that id
\* carries g, and a save that follows persists g for that id
C26_UpdatedGeometryShownAndSaved == [][UpdateShownThenPersisted]_vars

\* the same for the patches loaded from the database only
OriginalIds == IdsOfPatches(allPatches)

UpdateShownOnOriginals == \A id \in UpdatedWorkingIds(workingFeatureCollection, modifiedGeometries) \cap OriginalIds : WorkingGeometryOf(workingFeatureCollection, id) = modifiedGeometries[id]

UpdatePersistedOnOriginals == \A id \in UpdatedIdsSaved \ IdsOfPatches(saving.newPatches) : RowHolds(database', id, saving.modifiedGeometries[id])

OriginalUpdateShownAndSaved == [][UpdateShownOnOriginals' /\ (SaveSucceeds => UpdatePersistedOnOriginals)]_vars

\* updateGeometry was called for a patch added with addNewPatch
NewPatchUpdated == \E k \in 1..Len(newPatches) : newPatches[k].id \in UpdatedWorkingIds(workingFeatureCollection, modifiedGeometries)

\* a save persisted the geometry a new patch was added with although
\* updateGeometry had replaced it
NewPatchSavedAsAdded == \E k \in 1..Len(newPatches) : /\ modifiedGeometries[newPatches[k].id] \notin {NoGeom, newPatches[k].geometry}
                                                       /\ RowHolds(database, newPatches[k].id, newPatches[k].geometry)

\* ── Simplification panel: SimplifyPanel ──────────────────────────────
\* jobs one panel may issue by the user's doing
MaxJobs == 4

\* the positions the user moves the slider to
SliderValues == {60, 100, 141}

\* what findToleranceForTarget returns: the tolerance of position 100 itself,
\* or a tolerance between two positions, rounded to position 141
DefaultTolerances == {200, 281}

\* the patches the panel may be given
PanelPatchIds == {editedPatchId, "n1"}

\* simplifyPatch(originalGeometry, tolerance, { highQuality }): the
\* simplification of that patch at that tolerance
simplifyPatch(id, targetTolerance, highQuality) == [of |-> id, tolerance |-> targetTolerance, highQuality |-> highQuality]

\* computeSimplifyStats(originalGeometry, simplified, { includeDeviation })
computeSimplifyStats(id, simplified, includeDeviation) == [of |-> simplified, includeDeviation |-> includeDeviation]

\* const tolerance = logToTolerance(sliderToLog(sliderValue))
tolerance == ToleranceOfSlider(sliderValue)

\* slip: a result is taken whatever job it belongs to
JobIsAny(jobId, current) == TRUE

\* jobId === computeJobRef.current
JobIsCurrent(jobId, current) == jobId = current

\* a timeout set by job jobId, with what its callback closes over
PanelTimer(kind, jobId, id, targetTolerance, triggerInitialNeighbors, delayMs) == [kind |-> kind, jobId |-> jobId, patch |-> id, tolerance |-> targetTolerance, triggerInitialNeighbors |-> triggerInitialNeighbors, delayMs |-> delayMs]

\* cancelPendingTimers: clearTimeout on both refs
WithoutPending(pending) == pending \ {previewTimeoutRef, refineTimeoutRef}

\* a callback of the props invoked with a geometry
Invoked(callback, geometry) == [callback |-> callback, geometry |-> geometry]

\* an operation of the panel and the callbacks it invoked
PanelApply(name, a, invoked) ==
    /\ op' = name
    /\ args' = a
    /\ result' = invoked
    /\ UNCHANGED << inputs, session, history >>

\* schedulePreviewAndRefine(targetTolerance, { refineDelayMs, triggerInitialNeighbors })
\* called for patch id with these timeouts pending
schedulePreviewAndRefine(id, targetTolerance, refineDelayMs, triggerInitialNeighbors, pending, jobsBefore) ==
    /\ computeJobRef' = jobsBefore + 1
    /\ backgroundRefining' = TRUE
    /\ previewTimeoutRef' = PanelTimer("preview", jobsBefore + 1, id, targetTolerance, triggerInitialNeighbors, refineDelayMs)
    /\ refineTimeoutRef' = NoTimer
    /\ timers' = WithoutPending(pending) \cup {PanelTimer("preview", jobsBefore + 1, id, targetTolerance, triggerInitialNeighbors, refineDelayMs)}

\* a timeout whose job is no longer the current one: if (jobId !== computeJobRef.current) return
Dropped(name, t) ==
    /\ timers' = timers \ {t}
    /\ PanelApply(name, t, << >>)
    /\ UNCHANGED << panelPatch, isRefining, loading, sliderValue, stats, currentSimplified,
                    backgroundRefining, isApplying, initialComputationRanRef,
                    initialNeighborsTriggeredRef, computeJobRef, previewTimeoutRef,
                    refineTimeoutRef, skipNextSliderRef, lastRefinedRef >>

\* the timeout of the initial computation: the default tolerance, the slider
\* on it, the first job; the effect on the slider then runs if the tolerance
\* changed, and takes the skip unless the panel is loading or refining
InitialTimeoutOf(t, defaultTol) ==
    /\ sliderValue' = SliderOfTolerance(defaultTol)
    /\ skipNextSliderRef' = ~ (SliderOfTolerance(defaultTol) # sliderValue /\ ~ loading /\ ~ isRefining)
    /\ schedulePreviewAndRefine(t.patch, defaultTol, 0, TRUE, timers \ {t}, computeJobRef)
    /\ PanelApply("initialTimeout", t, << >>)
    /\ UNCHANGED << panelPatch, isRefining, loading, stats, currentSimplified, isApplying,
                    initialComputationRanRef, initialNeighborsTriggeredRef, lastRefinedRef >>

InitialTimeout == \E t \in {t \in timers : t.kind = "initial"} : \E defaultTol \in DefaultTolerances : InitialTimeoutOf(t, defaultTol)

\* the timeout of the refinement the preview sets
RefineTimerOf(t) == PanelTimer("refine", t.jobId, t.patch, t.tolerance, t.triggerInitialNeighbors, t.delayMs)

\* the effect on the slider after the preview ended the loading: it issues
\* a job for the slider's tolerance unless the panel refines or the skip is set
PreviewReschedules == loading /\ ~ isRefining /\ ~ skipNextSliderRef

\* the preview of a current job
PreviewShown(t) ==
    /\ currentSimplified' = simplifyPatch(t.patch, t.tolerance, FALSE)
    /\ stats' = computeSimplifyStats(t.patch, simplifyPatch(t.patch, t.tolerance, FALSE), FALSE)
    /\ loading' = FALSE
    /\ IF PreviewReschedules
       THEN /\ schedulePreviewAndRefine(panelPatch, tolerance, 250, FALSE, timers \ {t}, computeJobRef)
            /\ UNCHANGED skipNextSliderRef
       ELSE /\ refineTimeoutRef' = RefineTimerOf(t)
            /\ timers' = (timers \ {t}) \cup {RefineTimerOf(t)}
            /\ skipNextSliderRef' = (skipNextSliderRef /\ ~ (loading /\ ~ isRefining))
            /\ UNCHANGED << computeJobRef, backgroundRefining, previewTimeoutRef >>
    /\ PanelApply("previewTimeout", t, << Invoked("onSimplifiedGeometryChange", simplifyPatch(t.patch, t.tolerance, FALSE)) >>)
    /\ UNCHANGED << panelPatch, isRefining, sliderValue, isApplying, initialComputationRanRef,
                    initialNeighborsTriggeredRef, lastRefinedRef >>

PreviewTimeout == \E t \in {t \in timers : t.kind = "preview"} : IF JobIsCurrent(t.jobId, computeJobRef) THEN PreviewShown(t) ELSE Dropped("previewTimeout", t)

\* the callbacks of a refinement: the geometry, and once per patch the
\* neighbours' trigger
RefineInvoked(t, refined) ==
    << Invoked("onSimplifiedGeometryChange", refined) >>
    \o (IF t.triggerInitialNeighbors /\ ~ initialNeighborsTriggeredRef
        THEN << Invoked("onInitialSimplificationComplete", refined) >> ELSE << >>)

\* the refinement of a current job
RefineShown(t) ==
    /\ lastRefinedRef' = [tolerance |-> t.tolerance, geometry |-> simplifyPatch(t.patch, t.tolerance, TRUE)]
    /\ currentSimplified' = simplifyPatch(t.patch, t.tolerance, TRUE)
    /\ stats' = computeSimplifyStats(t.patch, simplifyPatch(t.patch, t.tolerance, TRUE), TRUE)
    /\ backgroundRefining' = FALSE
    /\ initialNeighborsTriggeredRef' = (initialNeighborsTriggeredRef \/ t.triggerInitialNeighbors)
    /\ timers' = timers \ {t}
    /\ PanelApply("refineTimeout", t, RefineInvoked(t, simplifyPatch(t.patch, t.tolerance, TRUE)))
    /\ UNCHANGED << panelPatch, isRefining, loading, sliderValue, isApplying,
                    initialComputationRanRef, computeJobRef, previewTimeoutRef,
                    refineTimeoutRef, skipNextSliderRef >>

RefineTimeout == \E t \in {t \in timers : t.kind = "refine"} : IF JobIsCurrent(t.jobId, computeJobRef) THEN RefineShown(t) ELSE Dropped("refineTimeout", t)

\* handleSliderChange, the slider being shown; the effect on the slider
\* takes the skip or issues a job
HandleSliderChange ==
    /\ ~ loading
    /\ ~ isRefining
    /\ computeJobRef < MaxJobs
    /\ \E v \in SliderValues \ {sliderValue} :
          /\ sliderValue' = v
          /\ IF skipNextSliderRef
             THEN /\ skipNextSliderRef' = FALSE
                  /\ UNCHANGED << computeJobRef, backgroundRefining, previewTimeoutRef,
                                  refineTimeoutRef, timers >>
             ELSE /\ schedulePreviewAndRefine(panelPatch, ToleranceOfSlider(v), 250, FALSE, timers, computeJobRef)
                  /\ UNCHANGED skipNextSliderRef
          /\ PanelApply("handleSliderChange", [sliderValue |-> v], << >>)
    /\ UNCHANGED << panelPatch, isRefining, loading, stats, currentSimplified, isApplying,
                    initialComputationRanRef, initialNeighborsTriggeredRef, lastRefinedRef >>

\* lastRefinedRef.current && lastRefinedRef.current.tolerance === tolerance
refinedMatch == lastRefinedRef # NoRefined /\ lastRefinedRef.tolerance = tolerance

\* handleApply while refining, or with the refinement of this tolerance at hand
ApplyAtOnce ==
    /\ isRefining \/ (refinedMatch /\ ~ backgroundRefining)
    /\ PanelApply("handleApply", [event |-> "click"],
                  IF isRefining THEN << Invoked("extract-edit-region", NoSimplified) >>
                  ELSE << Invoked("onApply", lastRefinedRef.geometry) >>)
    /\ UNCHANGED panel

\* handleApply otherwise: a finalising job
ApplyFinalising ==
    /\ ~ isRefining
    /\ ~ (refinedMatch /\ ~ backgroundRefining)
    /\ computeJobRef < MaxJobs
    /\ computeJobRef' = computeJobRef + 1
    /\ backgroundRefining' = FALSE
    /\ isApplying' = TRUE
    /\ previewTimeoutRef' = NoTimer
    /\ refineTimeoutRef' = NoTimer
    /\ timers' = WithoutPending(timers) \cup {PanelTimer("apply", computeJobRef + 1, panelPatch, tolerance, FALSE, 0)}
    /\ PanelApply("handleApply", [event |-> "click"], << >>)
    /\ UNCHANGED << panelPatch, isRefining, loading, sliderValue, stats, currentSimplified,
                    initialComputationRanRef, initialNeighborsTriggeredRef, skipNextSliderRef,
                    lastRefinedRef >>

\* handleApply: the button is shown unless loading, and disabled without a
\* simplification or while applying
HandleApply ==
    /\ ~ loading
    /\ currentSimplified # NoSimplified
    /\ ~ isApplying
    /\ (ApplyAtOnce \/ ApplyFinalising)

\* the finalising of a current job
ApplyDone(t) ==
    /\ lastRefinedRef' = [tolerance |-> t.tolerance, geometry |-> simplifyPatch(t.patch, t.tolerance, TRUE)]
    /\ currentSimplified' = simplifyPatch(t.patch, t.tolerance, TRUE)
    /\ stats' = computeSimplifyStats(t.patch, simplifyPatch(t.patch, t.tolerance, TRUE), TRUE)
    /\ isApplying' = FALSE
    /\ timers' = timers \ {t}
    /\ PanelApply("applyTimeout", t, << Invoked("onSimplifiedGeometryChange", simplifyPatch(t.patch, t.tolerance, TRUE)),
                                        Invoked("onApply", simplifyPatch(t.patch, t.tolerance, TRUE)) >>)
    /\ UNCHANGED << panelPatch, isRefining, loading, sliderValue, backgroundRefining,
                    initialComputationRanRef, initialNeighborsTriggeredRef, computeJobRef,
                    previewTimeoutRef, refineTimeoutRef, skipNextSliderRef >>

ApplyTimeout == \E t \in {t \in timers : t.kind = "apply"} : IF JobIsCurrent(t.jobId, computeJobRef) THEN ApplyDone(t) ELSE Dropped("applyTimeout", t)

\* handleRefine: onRefine(currentSimplified); the page enters the refine
\* mode and the panel is given isRefining
PanelHandleRefine ==
    /\ ~ loading
    /\ ~ isRefining
    /\ currentSimplified # NoSimplified
    /\ isRefining' = TRUE
    /\ PanelApply("handleRefine", [event |-> "click"], << Invoked("onRefine", currentSimplified) >>)
    /\ UNCHANGED << panelPatch, loading, sliderValue, stats, currentSimplified, backgroundRefining,
                    isApplying, initialComputationRanRef, initialNeighborsTriggeredRef,
                    computeJobRef, previewTimeoutRef, refineTimeoutRef, skipNextSliderRef,
                    lastRefinedRef, timers >>

\* the timeouts left by the clean-up of the initial computation and the reset
AfterReset == {t \in WithoutPending(timers) : t.kind # "initial"}

\* the panel is given another patch: the clean-up of the initial
\* computation, the reset, the initial computation again, and the effect on
\* the slider, which still sees the loading of the render before
PatchChanged ==
    /\ computeJobRef < MaxJobs
    /\ \E id \in PanelPatchIds \ {panelPatch} :
          /\ panelPatch' = id
          /\ IF loading \/ isRefining
             THEN /\ computeJobRef' = computeJobRef + 1
                  /\ backgroundRefining' = FALSE
                  /\ previewTimeoutRef' = NoTimer
                  /\ timers' = AfterReset \cup {InitialTimer(id)}
             ELSE /\ computeJobRef' = computeJobRef + 2
                  /\ backgroundRefining' = TRUE
                  /\ previewTimeoutRef' = PanelTimer("preview", computeJobRef + 2, id, tolerance, FALSE, 250)
                  /\ timers' = AfterReset \cup {InitialTimer(id), PanelTimer("preview", computeJobRef + 2, id, tolerance, FALSE, 250)}
          /\ PanelApply("patchChanged", [patch |-> id], << >>)
    /\ refineTimeoutRef' = NoTimer
    /\ initialComputationRanRef' = TRUE
    /\ initialNeighborsTriggeredRef' = FALSE
    /\ skipNextSliderRef' = FALSE
    /\ lastRefinedRef' = NoRefined
    /\ loading' = TRUE
    /\ isApplying' = FALSE
    /\ stats' = NoStats
    /\ currentSimplified' = NoSimplified
    /\ UNCHANGED << isRefining, sliderValue >>

PanelNext ==
    \/ InitialTimeout
    \/ PreviewTimeout
    \/ RefineTimeout
    \/ HandleSliderChange
    \/ HandleApply
    \/ ApplyTimeout
    \/ PanelHandleRefine
    \/ PatchChanged

\* the panel of the edited patch of one scenario
PanelInit ==
    /\ Loaded(CHOOSE c \in SessionScenarios : c.simp)
    /\ rejected = {}
    /\ op = "init"
    /\ args = [event |-> "mount"]
    /\ result = << >>

PanelSpec == PanelInit /\ [][PanelNext]_vars

\* the event loop runs every timeout that is set and not cleared
PanelLiveSpec == PanelSpec /\ WF_vars(InitialTimeout) /\ WF_vars(PreviewTimeout) /\ WF_vars(RefineTimeout) /\ WF_vars(ApplyTimeout)

\* ── C27 ──────────────────────────────────────────────────────────────
\* the step ran the computation of a preview, refine or apply timeout
TimeoutOps == {"previewTimeout", "refineTimeout", "applyTimeout"}

\* the computation that ran belongs to a job older than the one issued last
OlderJobComputed == op' \in TimeoutOps /\ args'.jobId < computeJobRef

\* neither the displayed geometry nor the stats changed, no callback was invoked
NothingShownNorInvoked == currentSimplified' = currentSimplified /\ stats' = stats /\ result' = << >>

\* C27: once a newer job has been issued (slider change, patch change or
\* Apply), the preview, refine or apply computation of an older job never
\* updates the displayed geometry or stats and never invokes
\* onSimplifiedGeometryChange, onInitialSimplificationComplete or onApply
C27_OlderJobResultDropped == [][OlderJobComputed => NothingShownNorInvoked]_vars

\* the computation of an older job ran, and its result was dropped
C27_Witness == op \in TimeoutOps /\ args.jobId < computeJobRef /\ result = << >>

\* the preview and refine timeouts of an older job are cleared when a newer
\* job is issued: those pending belong to the current job
PendingPreviewIsCurrent == \A t \in timers : t.kind \in {"preview", "refine"} => t.jobId = computeJobRef

\* the finalising timeout is not cleared: one of an older job can be pending
OlderApplyPending == \E t \in timers : t.kind = "apply" /\ t.jobId < computeJobRef

\* ── C28 ──────────────────────────────────────────────────────────────
\* onApply was invoked by the step that led here
OnApplyCalled == op \in {"applyTimeout", "handleApply"} /\ \E k \in 1..Len(result) : result[k].callback = "onApply"

\* C28: once Apply, outside the refine mode, has started a finalising job
\* (isApplying is true), eventually onApply is called with the refined
\* geometry or isApplying is false again
C28_ApplyingEventuallySettles == isApplying ~> (OnApplyCalled \/ ~ isApplying)

\* the finalising job was overtaken by a job of the slider and its timeout
\* has run: nothing is pending and isApplying is still true
ApplyingWithNothingPending == isApplying /\ timers = {} /\ panelPatch = editedPatchId

\* as long as the finalising job is the current one, it settles
FinalisingIsCurrent == isApplying /\ \E t \in timers : t.kind = "apply" /\ t.jobId = computeJobRef

FinalisingSettlesUnlessOvertaken == FinalisingIsCurrent ~> (OnApplyCalled \/ ~ isApplying \/ (isApplying /\ ~ FinalisingIsCurrent))

\* ── Undo journal: useEditHistory ─────────────────────────────────────
MAX_HISTORY == 50

\* JSON.parse(JSON.stringify(v)) of a geometry: the arrays are built anew,
\* the coordinates, finite numbers, are written and read back as they are
cloneGeometry(g) == [p \in 1..Len(g) |-> [r \in 1..Len(g[p]) |-> [k \in 1..Len(g[p][r]) |-> << g[p][r][k][1], g[p][r][k][2] >>]]]

\* new Map(Array.from(snapshot.entries()).map(([k, v]) => [k, clone of v]))
cloneSnapshot(snapshot) == {[id |-> e.id, geometry |-> cloneGeometry(e.geometry)] : e \in snapshot}

\* b.get(key), NoGeom when there is none
SnapshotGet(b, key) == IF \E e \in b : e.id = key THEN (CHOOSE e \in b : e.id = key).geometry ELSE NoGeom

snapshotsEqual(a, b) ==
    /\ Cardinality(a) = Cardinality(b)
    /\ \A e \in a : SnapshotGet(b, e.id) # NoGeom /\ SnapshotGet(b, e.id) = e.geometry

\* the snapshot of the working set with the east side of the edited patch at x
SnapshotOf(east) == {[id |-> editedPatchId, geometry |-> << << MakeRing(RectOpen(0, 0, east, 8, 8, 8), 0, FALSE) >> >>]}

\* the snapshots the page hands to the journal
JournalSnapshots == {SnapshotOf(8), SnapshotOf(7)}

\* past, present and future together
Journal == [past |-> past, present |-> present, future |-> future]

\* what a call returns: a snapshot or null
Returned(snapshot) == [isNull |-> FALSE, snapshot |-> snapshot]

ReturnedNull == [isNull |-> TRUE, snapshot |-> EmptySnapshot]

\* slip: the snapshot at the end when there are too many
WithNewestShifted(next) == IF Len(next) > MAX_HISTORY THEN SubSeq(next, 1, Len(next) - 1) ELSE next

\* if (next.length > MAX_HISTORY) next.shift()
WithOldestShifted(next) == IF Len(next) > MAX_HISTORY THEN Tail(next) ELSE next

\* pushState of an initialized journal with a snapshot other than the present
pushed(j, snapshot) == [past |-> WithOldestShifted(Append(j.past, cloneSnapshot(j.present))), present |-> cloneSnapshot(snapshot), future |-> << >>]

\* slip: the present is not kept for redo
undoForgetting(j) ==
    IF Len(j.past) = 0 THEN [journal |-> j, returned |-> ReturnedNull]
    ELSE [journal |-> [past |-> SubSeq(j.past, 1, Len(j.past) - 1), present |-> j.past[Len(j.past)], future |-> j.future],
          returned |-> Returned(j.past[Len(j.past)])]

\* undo: the journal after it and what it returns
undo(j) ==
    IF Len(j.past) = 0 THEN [journal |-> j, returned |-> ReturnedNull]
    ELSE [journal |-> [past |-> SubSeq(j.past, 1, Len(j.past) - 1), present |-> j.past[Len(j.past)], future |-> << cloneSnapshot(j.present) >> \o j.future],
          returned |-> Returned(j.past[Len(j.past)])]

\* redo: the journal after it and what it returns
redo(j) ==
    IF Len(j.future) = 0 THEN [journal |-> j, returned |-> ReturnedNull]
    ELSE [journal |-> [past |-> Append(j.past, cloneSnapshot(j.present)), present |-> j.future[1], future |-> Tail(j.future)],
          returned |-> Returned(j.future[1])]

\* an operation of the journal, the journal it leaves and what it returns
HistoryApply(name, a, j, returned) ==
    /\ past' = j.past
    /\ present' = j.present
    /\ future' = j.future
    /\ op' = name
    /\ args' = a
    /\ result' = returned
    /\ UNCHANGED << inputs, session, panel >>

\* initialize(snapshot)
Initialize ==
    \E snapshot \in JournalSnapshots :
        /\ initialized' = TRUE
        /\ HistoryApply("initialize", [snapshot |-> snapshot],
                        [past |-> << >>, present |-> cloneSnapshot(snapshot), future |-> << >>], ReturnedNull)

\* pushState(snapshot): initialize if that was not done, nothing if the
\* snapshot is the present one
\* the journal pushState(snapshot) leaves
pushState(j, snapshot) ==
    IF ~ initialized THEN [past |-> << >>, present |-> cloneSnapshot(snapshot), future |-> << >>]
    ELSE IF snapshotsEqual(snapshot, j.present) THEN j
    ELSE pushed(j, snapshot)

\* pushState returns nothing; the result keeps how many snapshots left
\* the undo stack at its front
PushState ==
    \E snapshot \in JournalSnapshots :
        /\ initialized' = TRUE
        /\ HistoryApply("pushState", [snapshot |-> snapshot], pushState(Journal, snapshot),
                        [isNull |-> TRUE, snapshot |-> EmptySnapshot,
                         discarded |-> IF initialized /\ ~ snapshotsEqual(snapshot, present)
                                       THEN Len(past) + 1 - Len(pushState(Journal, snapshot).past) ELSE 0])

Undo ==
    /\ HistoryApply("undo", [snapshot |-> EmptySnapshot], undo(Journal).journal, undo(Journal).returned)
    /\ UNCHANGED initialized

Redo ==
    /\ HistoryApply("redo", [snapshot |-> EmptySnapshot], redo(Journal).journal, redo(Journal).returned)
    /\ UNCHANGED initialized

HistoryNext ==
    \/ Initialize
    \/ PushState
    \/ Undo
    \/ Redo

\* the journal of a page that has loaded one scenario
HistoryInit ==
    /\ Loaded(CHOOSE c \in SessionScenarios : c.simp)
    /\ rejected = {}
    /\ op = "init"
    /\ args = [snapshot |-> EmptySnapshot]
    /\ result = ReturnedNull

HistorySpec == HistoryInit /\ [][HistoryNext]_vars

\* ── C29 ──────────────────────────────────────────────────────────────
\* undo, then redo at once, gives back the journal undo started from
RedoRestoresUndone == Len(past) > 0 => redo(undo(Journal).journal).journal = Journal /\ redo(undo(Journal).journal).returned = Returned(present)

\* undo with nothing to undo, redo with nothing to redo: null, nothing changes
NullOnEmptyStack ==
    /\ Len(past) = 0 => undo(Journal) = [journal |-> Journal, returned |-> ReturnedNull]
    /\ Len(future) = 0 => redo(Journal) = [journal |-> Journal, returned |-> ReturnedNull]

\* C29: undo followed at once by redo restores the present snapshot and the
\* undo and redo stacks as they were before the undo; undo with an empty undo
\* stack and redo with an empty redo stack return null and change nothing
C29_UndoRedoRoundTrip == RedoRestoresUndone /\ NullOnEmptyStack

\* a redo has followed an undo, with snapshots on both stacks
C29_Witness == op = "redo" /\ ~ result.isNull /\ Len(past) > 1 /\ Len(future) > 0

\* undo was called with nothing to undo
UndoOnEmptyStack == op = "undo" /\ result.isNull /\ initialized

\* ── C30 ──────────────────────────────────────────────────────────────
\* the step was a pushState that put the present on a full undo stack
PushedOnFull == op' = "pushState" /\ Len(past) = MAX_HISTORY /\ future' = << >> /\ ~ snapshotsEqual(args'.snapshot, present)

\* the oldest snapshot went, the others and the present stay in order
OldestDiscarded == past' = Tail(past) \o << present >>

\* C30: the undo stack never holds more than 50 snapshots, whatever the
\* sequence of initialize, pushState, undo and redo; a pushState that would
\* exceed 50 discards the oldest snapshot
C30_AtMostFiftyPast == [][Len(past') <= MAX_HISTORY /\ (PushedOnFull => OldestDiscarded)]_vars

\* a pushState on a full undo stack has discarded a snapshot
C30_Witness == op = "pushState" /\ result.discarded = 1 /\ Len(past) = MAX_HISTORY

\* a redo has filled the undo stack again
RedoneToFull == op = "redo" /\ ~ result.isNull /\ Len(past) = MAX_HISTORY

\* the stacks together never hold more than 50 snapshots
StacksAtMostFifty == Len(past) + Len(future) <= MAX_HISTORY

====
